---- MODULE Spec2Model ----
(***************************************************************************)
(* Model of the gazette extraction pipeline of lMisterBrickl/mo4:          *)
(*   - ilegis_to_json_parser.py : print_r deserializer, canonicalization,  *)
(*     articole block locator and item splitter                            *)
(*   - leg5_src/extractor/extractor.py : legal-text segmenter and          *)
(*     field recovery                                                      *)
(*   - leg5_src/parser/{parser,hybrid_parser}.py : tax-id normalization    *)
(*                                                                         *)
(* The functions are pure; each specification draws an input in Init and   *)
(* its action applies the function to it.  Python exceptions are modelled  *)
(* as results with err = TRUE.                                             *)
(*                                                                         *)
(* A print_r dump is modelled one level above characters: it is a sequence *)
(* of lines, a line is a record [t, k, v] classified exactly as the        *)
(* source's regular expressions classify it.  The legal text is modelled   *)
(* character by character, with the extractor's patterns run on it.        *)
(***************************************************************************)
EXTENDS Integers, Sequences, FiniteSets, TLC

VARIABLES input, output, pc

vars == <<input, output, pc>>

\* Python's None.
None == "None"

(***************************************************************************)
(* Lines of a print_r dump                                                 *)
(***************************************************************************)
Line(t, k, v) == [t |-> t, k |-> k, v |-> v]

\* ""                      (dropped by `if l.strip() != ""`)
BlankLine == Line("blank", "", "")
\* "Array"
ArrayLine == Line("array", "", "Array")
\* "("
OpenLine == Line("open", "", "(")
\* ")"
CloseLine == Line("close", "", ")")
\* "[k] => after"          (after = "" when nothing follows the arrow)
KeyLine(k, after) == Line("key", k, after)
\* "[k] =&gt; after"       (as found in HTML before entity unescaping)
EscKeyLine(k, after) == Line("keyesc", k, after)
\* any other line
TextLine(s) == Line("text", "", s)

\* The line whose text is the string s.
AsLine(s) ==
  CASE s = "" -> BlankLine
    [] s = "Array" -> ArrayLine
    [] s = "(" -> OpenLine
    [] s = ")" -> CloseLine
    [] OTHER -> TextLine(s)

\* _KEY = ^\s*\[([^\]]+)\]\s*=>\s*(.*)$
_KEY(l) == l.t = "key"
\* OPEN = ^\s*\($
OPEN(l) == l.t = "open"
\* CLOSE = ^\s*\)\s*$
CLOSE(l) == l.t = "close"
\* WORD_ARRAY = ^\s*Array\s*$
WORD_ARRAY(l) == l.t = "array"

\* text.replace("&gt;", ">")... : an escaped arrow becomes an arrow.
unescape(l) == IF l.t = "keyesc" THEN [l EXCEPT !.t = "key"] ELSE l

(***************************************************************************)
(* NestedValue: scalar | mapping (ordered) | sequence                      *)
(* kv is a sequence of <<key, node>> pairs; a sequence uses the key "".    *)
(* A scalar keeps the lines that were joined into it.                      *)
(***************************************************************************)
Scalar(ls) == [tag |-> "S", s |-> ls, kv |-> <<>>]
Mapping(kv) == [tag |-> "M", s |-> <<>>, kv |-> kv]
List(xs) == [tag |-> "L", s |-> <<>>, kv |-> [i \in 1..Len(xs) |-> <<"", xs[i]>>]]

Keys(obj) == [i \in 1..Len(obj.kv) |-> obj.kv[i][1]]
Values(obj) == [i \in 1..Len(obj.kv) |-> obj.kv[i][2]]

\* obj[k] = v on a Python dict: replace in place, or append.
SetItem(kv, k, v) ==
  IF \E i \in 1..Len(kv) : kv[i][1] = k
  THEN [i \in 1..Len(kv) |-> IF kv[i][1] = k THEN <<k, v>> ELSE kv[i]]
  ELSE Append(kv, <<k, v>>)

\* lines.insert(j, x), j 0-based.
InsertAt(lines, j, x) == SubSeq(lines, 1, j) \o <<x>> \o SubSeq(lines, j + 1, Len(lines))

\* Result of parse_obj / parse_value: (obj, j) plus the mutated line list.
Ret(obj, j, lines) == [err |-> FALSE, obj |-> obj, j |-> j, lines |-> lines]
\* IndexError raised by lines[j].
Raise(j, lines) == [err |-> TRUE, obj |-> Mapping(<<>>), j |-> j, lines |-> lines]

\* while j < len(lines) and not _KEY.match(lines[j]) and not CLOSE.match(lines[j]): j += 1
RECURSIVE ScalarEnd(_, _)
ScalarEnd(lines, j) ==
  IF j < Len(lines) /\ ~_KEY(lines[j + 1]) /\ ~CLOSE(lines[j + 1])
  THEN ScalarEnd(lines, j + 1)
  ELSE j

\* if j < len(lines) and OPEN.match(lines[j]): j += 1
SkipOpen(lines, j) == IF j < Len(lines) /\ OPEN(lines[j + 1]) THEN j + 1 ELSE j

\* vals = [lines[j]]  (indexes past the end when j = len(lines))
FirstValueLine(lines, j) ==
  IF j >= Len(lines)
  THEN Raise(j, lines)
  ELSE LET e == ScalarEnd(lines, j + 1)
       IN Ret(Scalar(SubSeq(lines, j + 1, e)), e, lines)

RECURSIVE parse_obj_loop(_, _, _), parse_value(_, _)

parse_obj(lines, j) == parse_obj_loop(lines, j, <<>>)

parse_value(lines, j) ==
  IF j < Len(lines) /\ WORD_ARRAY(lines[j + 1])
  THEN parse_obj(lines, SkipOpen(lines, j + 1))
  ELSE FirstValueLine(lines, j)

parse_obj_loop(lines, j, obj) ==
  IF j >= Len(lines) THEN Ret(Mapping(obj), j, lines)
  ELSE IF CLOSE(lines[j + 1]) THEN Ret(Mapping(obj), j + 1, lines)
  ELSE IF ~_KEY(lines[j + 1]) THEN parse_obj_loop(lines, j + 1, obj)
  ELSE LET k == lines[j + 1].k
           after == lines[j + 1].v
           j1 == j + 1
           r == IF after # ""
                THEN IF WORD_ARRAY(AsLine(after))
                     THEN parse_obj(lines, SkipOpen(lines, j1))
                     ELSE parse_value(InsertAt(lines, j1, AsLine(after)), j1)
                ELSE parse_value(lines, j1)
       IN IF r.err THEN r ELSE parse_obj_loop(r.lines, r.j, SetItem(obj, k, r.obj))

\* str(key).isdigit()
isdigit(k) == k \in {"0", "1", "2", "3", "00", "01"}

\* int(key)
int(k) ==
  CASE k = "0" -> 0
    [] k = "1" -> 1
    [] k = "2" -> 2
    [] k = "3" -> 3
    [] k = "00" -> 0
    [] k = "01" -> 1

\* sorted(pairs, key=lambda pair: pair[0]) : stable insertion sort.
RECURSIVE InsertSorted(_, _)
InsertSorted(ps, p) ==
  IF ps = <<>> THEN <<p>>
  ELSE IF ps[Len(ps)][1] <= p[1] THEN Append(ps, p)
  ELSE Append(InsertSorted(SubSeq(ps, 1, Len(ps) - 1), p), ps[Len(ps)])

RECURSIVE sorted(_)
sorted(ps) ==
  IF ps = <<>> THEN <<>>
  ELSE InsertSorted(sorted(SubSeq(ps, 1, Len(ps) - 1)), ps[Len(ps)])

\* all(pairs[i][0] == i for i in range(len(pairs)))
IsDense(pairs) == \A i \in 1..Len(pairs) : pairs[i][1] = i - 1

RECURSIVE _to_list_if_numeric_shallow(_)
\* _to_list_if_numeric with the dense branch returning the values as they
\* are (no recursion into them): return [val for _, val in pairs].
_to_list_if_numeric_shallow(obj) ==
  IF obj.tag = "M"
  THEN LET keys == Keys(obj)
           pairs == sorted([i \in 1..Len(obj.kv) |-> <<int(obj.kv[i][1]), obj.kv[i][2]>>])
       IN IF Len(keys) > 0 /\ (\A i \in 1..Len(keys) : isdigit(keys[i])) /\ IsDense(pairs)
          THEN List([i \in 1..Len(pairs) |-> pairs[i][2]])
          ELSE Mapping([i \in 1..Len(obj.kv) |->
                          <<obj.kv[i][1], _to_list_if_numeric_shallow(obj.kv[i][2])>>])
  ELSE IF obj.tag = "L"
  THEN List([i \in 1..Len(obj.kv) |-> _to_list_if_numeric_shallow(obj.kv[i][2])])
  ELSE obj

RECURSIVE _to_list_if_numeric(_)
_to_list_if_numeric(obj) ==
  IF obj.tag = "M"
  THEN LET keys == Keys(obj)
           pairs == sorted([i \in 1..Len(obj.kv) |-> <<int(obj.kv[i][1]), obj.kv[i][2]>>])
       IN IF Len(keys) > 0 /\ (\A i \in 1..Len(keys) : isdigit(keys[i])) /\ IsDense(pairs)
          THEN List([i \in 1..Len(pairs) |-> _to_list_if_numeric(pairs[i][2])])
          ELSE Mapping([i \in 1..Len(obj.kv) |->
                          <<obj.kv[i][1], _to_list_if_numeric(obj.kv[i][2])>>])
  ELSE IF obj.tag = "L"
  THEN List([i \in 1..Len(obj.kv) |-> _to_list_if_numeric(obj.kv[i][2])])
  ELSE obj

\* lines = [l.rstrip() for l in txt.splitlines() if l.strip() != ""]
NonBlank(text) == SelectSeq([i \in 1..Len(text) |-> unescape(text[i])], LAMBDA l : l.t # "blank")

\* i = 0; skip "Array" and the "(" after it.
StartIndex(lines) == IF WORD_ARRAY(lines[1]) THEN SkipOpen(lines, 1) ELSE 0

parse_php_array(text) ==
  LET lines == NonBlank(text)
  IN IF lines = <<>> THEN [err |-> FALSE, val |-> Mapping(<<>>)]
     ELSE LET r == parse_obj(lines, StartIndex(lines))
          IN IF r.err THEN [err |-> TRUE, val |-> Mapping(<<>>)]
             ELSE [err |-> FALSE, val |-> _to_list_if_numeric(r.obj)]

(***************************************************************************)
(* Specification SpecParse: parse_php_array on arbitrary line sequences    *)
(***************************************************************************)
\* Longest dump text, in lines.
MaxLines == 4

DumpLineSet ==
  {BlankLine, ArrayLine, OpenLine, CloseLine, TextLine("t"), EscKeyLine("a", "x")}
    \cup {KeyLine(k, v) : k \in {"0", "a"}, v \in {"", "Array", "x"}}

RECURSIVE SeqsUpTo(_, _)
SeqsUpTo(S, n) ==
  IF n = 0 THEN {<<>>}
  ELSE LET shorter == SeqsUpTo(S, n - 1)
       IN shorter \cup {Append(s, x) : s \in {t \in shorter : Len(t) = n - 1}, x \in S}

InitParse == pc = "ready" /\ input \in SeqsUpTo(DumpLineSet, MaxLines) /\ output = None

ParseText ==
  /\ pc = "ready"
  /\ output' = parse_php_array(input)
  /\ pc' = "parsed"
  /\ UNCHANGED input

SpecParse == InitParse /\ [][ParseText]_vars

\* C1: parse_php_array never raises, whatever the input lines are: every call
\* returns a mapping or a tree (stated as written; the code violates it).
C1_NeverRaises == pc = "parsed" => ~output.err

(***************************************************************************)
(* Specification SpecDump: parse_php_array on print_r dumps of PHP arrays  *)
(***************************************************************************)
\* PHP's print_r, as the hand-built dumps of the round-trip property are laid
\* out: one "[k] => v" line per entry, further lines of a multi-line string
\* below it, a nested array as "[k] => Array", "(", entries, ")", "".
RECURSIVE print_r_entries(_)
print_r_entries(kv) ==
  IF kv = <<>> THEN <<>>
  ELSE LET k == kv[1][1]
           v == kv[1][2]
           head == IF v.tag = "S"
                   THEN IF v.s = <<>> THEN <<KeyLine(k, "")>>
                        ELSE <<KeyLine(k, v.s[1].v)>> \o SubSeq(v.s, 2, Len(v.s))
                   ELSE <<KeyLine(k, "Array"), OpenLine>> \o print_r_entries(v.kv)
                          \o <<CloseLine, BlankLine>>
       IN head \o print_r_entries(SubSeq(kv, 2, Len(kv)))

print_r(arr) == <<ArrayLine, OpenLine>> \o print_r_entries(arr.kv) \o <<CloseLine, BlankLine>>

\* String values of the dumped arrays: "x", the empty string, and "x\nt".
SrcScalars == {Scalar(<<TextLine("x")>>), Scalar(<<>>), Scalar(<<TextLine("x"), TextLine("t")>>)}

\* Key lists of the nested arrays and of the dumped (root) arrays.
InnerKeyLists == {<<>>, <<"0">>, <<"0", "1">>, <<"0", "a">>, <<"1", "0">>}
RootKeyLists == InnerKeyLists \cup {<<"a">>, <<"0", "2">>, <<"0", "1", "2">>}

\* All mappings with a key list of KL and values of V.
MappingsOver(KL, V) ==
  UNION {{Mapping([i \in 1..Len(ks) |-> <<ks[i], vs[i]>>]) : vs \in [1..Len(ks) -> V]} : ks \in KL}

InnerArrays == MappingsOver(InnerKeyLists, {Scalar(<<TextLine("x")>>), Scalar(<<>>)})
PhpArrays == MappingsOver(RootKeyLists, SrcScalars \cup InnerArrays)

InitDump == pc = "ready" /\ input \in PhpArrays /\ output = None

ParseDump ==
  /\ pc = "ready"
  /\ output' = parse_php_array(print_r(input))
  /\ pc' = "parsed"
  /\ UNCHANGED input

SpecDump == InitDump /\ [][ParseDump]_vars

\* The keys of a mapping are exactly the dense integers 0..n-1, n >= 1.
DenseKeys(ks) ==
  /\ Len(ks) >= 1
  /\ \A j \in 1..Len(ks) : isdigit(ks[j])
  /\ \A i \in 0..(Len(ks) - 1) : Cardinality({j \in 1..Len(ks) : int(ks[j]) = i}) = 1

\* r is what the dumped tree t must come back as: a mapping with dense keys
\* as the sequence of its values in key order, any other mapping as a mapping
\* with the same keys, at every level; a string as itself.
RECURSIVE CameBackAs(_, _)
CameBackAs(t, r) ==
  IF t.tag = "S" THEN r = t
  ELSE IF DenseKeys(Keys(t))
  THEN /\ r.tag = "L"
       /\ Len(r.kv) = Len(t.kv)
       /\ \A j \in 1..Len(t.kv) : CameBackAs(t.kv[j][2], r.kv[int(t.kv[j][1]) + 1][2])
  ELSE /\ r.tag = "M"
       /\ Keys(r) = Keys(t)
       /\ \A j \in 1..Len(t.kv) : CameBackAs(t.kv[j][2], r.kv[j][2])

\* C2: the dump of a mapping with keys "0","1","2" parses to the 3-element
\* sequence of its values, the dump of one with keys "0","2" to a mapping with
\* those keys; in general a mapping comes back as a sequence exactly when its
\* keys are dense, at every nesting level (stated as written; the code violates
\* it for a dump with an empty string value).
C2_DenseKeysBecomeSequence == pc = "parsed" => ~output.err /\ CameBackAs(input, output.val)

\* The same statement for the dumps none of whose string values is empty.
RECURSIVE NoEmptyString(_)
NoEmptyString(t) ==
  IF t.tag = "S" THEN t.s # <<>>
  ELSE \A j \in 1..Len(t.kv) : NoEmptyString(t.kv[j][2])

DenseKeysBecomeSequenceNonEmpty ==
  (pc = "parsed" /\ NoEmptyString(input)) => ~output.err /\ CameBackAs(input, output.val)

(***************************************************************************)
(* Specification SpecCanon: _to_list_if_numeric applied once and again     *)
(***************************************************************************)
\* Longest list in a drawn tree.
MaxListLen == 2

ListsOver(V) == {List(xs) : xs \in SeqsUpTo(V, MaxListLen)}

Trees0 == {Scalar(<<TextLine("x")>>)}
Trees1 == Trees0 \cup MappingsOver(InnerKeyLists, Trees0) \cup ListsOver(Trees0)
Trees2 == Trees1 \cup MappingsOver(RootKeyLists, Trees1) \cup ListsOver(Trees1)

InitCanon == pc = "ready" /\ input \in Trees2 /\ output = None

Canonicalize ==
  /\ pc = "ready"
  /\ output' = _to_list_if_numeric(input)
  /\ pc' = "once"
  /\ UNCHANGED input

Recanonicalize ==
  /\ pc = "once"
  /\ output' = _to_list_if_numeric(output)
  /\ pc' = "twice"
  /\ UNCHANGED input

NextCanon == Canonicalize \/ Recanonicalize

SpecCanon == InitCanon /\ [][NextCanon]_vars

\* C3: canonicalization is idempotent: canonicalizing the canonical form of
\* any tree of mappings, sequences and scalars gives that canonical form again.
C3_CanonIdempotent == pc = "twice" => output = _to_list_if_numeric(input)

\* A dense mapping holding a dense mapping has been canonicalized twice.
C3_Witness ==
  /\ pc = "twice"
  /\ input.tag = "M" /\ DenseKeys(Keys(input))
  /\ \E j \in 1..Len(input.kv) : input.kv[j][2].tag = "M" /\ DenseKeys(Keys(input.kv[j][2]))
  /\ output.tag = "L"

(***************************************************************************)
(* Structured-block locator (modal print_r dumps)                          *)
(* A string is the sequence of its pieces between "\n": "" is <<BlankLine>>*)
(***************************************************************************)
\* raw.splitlines(): a final empty piece is no line.
splitlines(text) ==
  IF text[Len(text)] = BlankLine THEN SubSeq(text, 1, Len(text) - 1) ELSE text

\* "\n".join(lines)
join(lines) == IF lines = <<>> THEN <<BlankLine>> ELSE lines

\* lines[a:b] of Python, a and b 0-based.
Slice(lines, a, b) == SubSeq(lines, a + 1, b)

\* re.search(r"\[articole\]\s*=>\s*Array\s*$", l)
IsArticoleHeader(l) == l.t = "key" /\ l.k = "articole" /\ l.v = "Array"

\* re.match(r"^\s*\[\d+\]\s*=>\s*Array\s*$", l)
IsItemHeader(l) == l.t = "key" /\ isdigit(l.k) /\ l.v = "Array"

\* while j < len(lines) and not re.match(r"^\s*\(\s*$", lines[j]): j += 1
RECURSIVE FindOpen(_, _)
FindOpen(lines, j) ==
  IF j < Len(lines) /\ ~OPEN(lines[j + 1]) THEN FindOpen(lines, j + 1) ELSE j

\* The depth-counting loop of _get_articole_block; returns the final j.
RECURSIVE BlockScan(_, _, _)
BlockScan(lines, j, depth) ==
  IF j < Len(lines) /\ depth > 0
  THEN IF j + 1 < Len(lines) /\ WORD_ARRAY(lines[j + 1]) /\ OPEN(lines[j + 2])
       THEN BlockScan(lines, j + 2, depth + 1)
       ELSE IF OPEN(lines[j + 1]) THEN BlockScan(lines, j + 1, depth + 1)
       ELSE IF CLOSE(lines[j + 1]) THEN BlockScan(lines, j + 1, depth - 1)
       ELSE BlockScan(lines, j + 1, depth)
  ELSE j

\* The body of the for loop, entered at the first line i that matches.
BlockFrom(lines, i) ==
  LET j == FindOpen(lines, i + 1)
  IN IF j >= Len(lines) THEN [none |-> TRUE, text |-> <<>>]
     ELSE LET start == j + 1
              e == BlockScan(lines, start, 1)
          IN [none |-> FALSE, text |-> join(Slice(lines, start, e - 1))]

_get_articole_block(raw) ==
  LET lines == splitlines(raw)
      hits == {i \in 0..(Len(lines) - 1) : IsArticoleHeader(lines[i + 1])}
  IN IF hits = {} THEN [none |-> TRUE, text |-> <<>>]
     ELSE BlockFrom(lines, CHOOSE i \in hits : \A h \in hits : i <= h)

\* lines[start:i - 1] with the closing line kept in: lines[start:i].
ItemSliceWithClose(lines, start, i) == join(Slice(lines, start, i))

\* items.append("\n".join(lines[start:i - 1]))
ItemSlice(lines, start, i) == join(Slice(lines, start, i - 1))

\* The depth-counting loop of _split_top_level_articole_items; returns the final i.
RECURSIVE ItemScan(_, _, _)
ItemScan(lines, i, depth) ==
  IF i < Len(lines) /\ depth > 0
  THEN IF i + 1 < Len(lines) /\ WORD_ARRAY(lines[i + 1]) /\ OPEN(lines[i + 2])
       THEN ItemScan(lines, i + 2, depth + 1)
       ELSE IF OPEN(lines[i + 1]) THEN ItemScan(lines, i + 1, depth + 1)
       ELSE IF CLOSE(lines[i + 1]) THEN ItemScan(lines, i + 1, depth - 1)
       ELSE ItemScan(lines, i + 1, depth)
  ELSE i

RECURSIVE SplitLoop(_, _, _)
SplitLoop(lines, i, items) ==
  IF i < Len(lines)
  THEN IF IsItemHeader(lines[i + 1]) /\ i + 1 < Len(lines) /\ OPEN(lines[i + 2])
       THEN LET start == i + 2
                e == ItemScan(lines, start, 1)
            IN SplitLoop(lines, e, Append(items, ItemSlice(lines, start, e)))
       ELSE SplitLoop(lines, i + 1, items)
  ELSE items

_split_top_level_articole_items(block_text) == SplitLoop(splitlines(block_text), 0, <<>>)

(***************************************************************************)
(* Specification SpecSplit: the splitter on blocks of sibling items        *)
(***************************************************************************)
\* Most sibling items in a drawn block.
MaxItems == 3

\* A nested group "[k] => Array", "(", inner, ")", "" as print_r lays it out.
Group(k, inner) == <<KeyLine(k, "Array"), OpenLine>> \o inner \o <<CloseLine, BlankLine>>

\* Balanced item bodies: scalars, nested arrays (numeric-keyed ones too, one
\* inside another, a bare "Array" line before its parenthesis).
ItemBodies ==
  { <<KeyLine("id", "x")>> \o Group("regcom", <<KeyLine("0", "x")>>),
    <<KeyLine("id", "x")>> \o Group("regcom", <<KeyLine("0", "x")>>)
       \o Group("cif", <<KeyLine("0", "x")>>) \o <<KeyLine("titlu", "")>>,
    Group("0", <<KeyLine("id", "x")>>) \o Group("1", <<>>),
    Group("a", Group("0", Group("0", <<KeyLine("0", "x")>>))),
    <<KeyLine("a", ""), ArrayLine, OpenLine, KeyLine("0", "x"), TextLine("t"), CloseLine>>,
    <<KeyLine("id", "x"), TextLine("t")>> }

\* What stands between an item's closing line and the next item.
ItemGaps == {<<>>, <<BlankLine>>}

DrawnItems == [body : ItemBodies, gap : ItemGaps]

\* "[i-1] => Array", "(", body, ")", gap for each item in turn.
RECURSIVE BlockLines(_, _)
BlockLines(items, n) ==
  IF n = 0 THEN <<>>
  ELSE BlockLines(items, n - 1)
         \o <<KeyLine(IF n = 1 THEN "0" ELSE IF n = 2 THEN "1" ELSE IF n = 3 THEN "2" ELSE "3",
                      "Array"), OpenLine>>
         \o items[n].body \o <<CloseLine>> \o items[n].gap

BlockText(items) == join(BlockLines(items, Len(items)))

InitSplit == pc = "ready" /\ input \in SeqsUpTo(DrawnItems, MaxItems) /\ output = None

SplitBlock ==
  /\ pc = "ready"
  /\ output' = _split_top_level_articole_items(BlockText(input))
  /\ pc' = "split"
  /\ UNCHANGED input

SpecSplit == InitSplit /\ [][SplitBlock]_vars

CountLines(lines, P(_)) == Cardinality({i \in 1..Len(lines) : P(lines[i])})

\* C4: on a block of n sibling items, each holding nested Array groups, the
\* splitter returns exactly n slices in source order, each the exact run of
\* lines strictly inside its item's parentheses, with as many lone "(" lines
\* as lone ")" lines; nested numeric-keyed arrays are no items of their own.
C4_SplitReturnsItems ==
  pc = "split" =>
    /\ Len(output) = Len(input)
    /\ \A n \in 1..Len(input) :
         /\ output[n] = join(input[n].body)
         /\ CountLines(output[n], OPEN) = CountLines(output[n], CLOSE)

\* Three sibling items, each with a nested array, have been split in three.
C4_Witness ==
  /\ pc = "split"
  /\ Len(input) = 3
  /\ \A n \in 1..3 : \E i \in 1..Len(input[n].body) : IsItemHeader(input[n].body[i])
  /\ Len(output) = 3

(***************************************************************************)
(* Specification SpecBlock: _get_articole_block on arbitrary raw text      *)
(***************************************************************************)
\* Longest raw text, in lines.
MaxRawLines == 5

RawLineSet ==
  {KeyLine("articole", "Array"), KeyLine("0", "Array"), ArrayLine, OpenLine, CloseLine,
   TextLine("t"), BlankLine}

InitBlock ==
  /\ pc = "ready"
  /\ input \in (SeqsUpTo(RawLineSet, MaxRawLines) \ {<<>>})
  /\ output = None

GetBlock ==
  /\ pc = "ready"
  /\ output' = _get_articole_block(input)
  /\ pc' = "located"
  /\ UNCHANGED input

SpecBlock == InitBlock /\ [][GetBlock]_vars

\* Lines a..b (1-based, inclusive) hold as many lone "(" as lone ")" plus d.
DepthAfter(lines, a, b) ==
  1 + Cardinality({x \in a..b : OPEN(lines[x])}) - Cardinality({x \in a..b : CLOSE(lines[x])})

\* What the block of the raw text is: nothing without the key or without an
\* opening line after it; else the lines after the opening line o, up to the
\* line before its matching close, or up to the end of input without one.
ExpectedBlock(raw) ==
  LET lines == splitlines(raw)
      heads == {i \in 1..Len(lines) : IsArticoleHeader(lines[i])}
  IN IF heads = {} THEN [none |-> TRUE, text |-> <<>>]
     ELSE LET h == CHOOSE i \in heads : \A g \in heads : i <= g
              opens == {i \in (h + 1)..Len(lines) : OPEN(lines[i])}
          IN IF opens = {} THEN [none |-> TRUE, text |-> <<>>]
             ELSE LET o == CHOOSE i \in opens : \A g \in opens : i <= g
                      closes == {c \in (o + 1)..Len(lines) : DepthAfter(lines, o + 1, c) = 0}
                  IN IF closes = {}
                     THEN [none |-> FALSE, text |-> join(SubSeq(lines, o + 1, Len(lines)))]
                     ELSE LET c == CHOOSE i \in closes : \A g \in closes : i <= g
                          IN [none |-> FALSE, text |-> join(SubSeq(lines, o + 1, c - 1))]

\* C5: _get_articole_block returns exactly the lines strictly between the
\* opening line after "[articole] => Array" and its matching closing line,
\* None when the key is absent, and loses no line after the opening line when
\* the depth never returns to zero (stated as written; the code violates the
\* last part).
C5_BlockIsExact == pc = "located" => output = ExpectedBlock(input)

\* The same statement for the raw texts whose block is closed.
BlockClosed(raw) ==
  LET lines == splitlines(raw)
  IN \A h \in 1..Len(lines), o \in 1..Len(lines) :
       (IsArticoleHeader(lines[h]) /\ h < o /\ OPEN(lines[o]))
         => \E c \in (o + 1)..Len(lines) : DepthAfter(lines, o + 1, c) = 0

BlockIsExactWhenClosed == (pc = "located" /\ BlockClosed(input)) => output = ExpectedBlock(input)


(***************************************************************************)
(* Legal-text extractor: src/leg5_src/extractor/extractor.py.              *)
(*                                                                         *)
(* Python strings are strings; offsets are 0-based as in Python.  The      *)
(* letters U+0103, U+0219 and U+021B, which a string of this module cannot *)
(* hold, are written with the Latin-1 letters U+00E3, U+00E7 and U+00FE    *)
(* (and their capitals with U+00C3, U+00C7 and U+00DE); the texts below    *)
(* use those three letters for nothing else.                               *)
(***************************************************************************)

Min(S) == CHOOSE m \in S : \A n \in S : m <= n
Max(S) == CHOOSE m \in S : \A n \in S : m >= n

Chars(str) == <<>> \o [i \in 1..Len(str) |-> SubSeq(str, i, i)]
CharSet(str) == {SubSeq(str, i, i) : i \in 1..Len(str)}
\* s[a:b]
Substr(s, a, b) == SubSeq(s, a + 1, b)

\* U+00A0
NBSP == " "
Digits == CharSet("0123456789")
Spaces == {" ", "\t", "\n", NBSP}
LowerS == "abcdefghijklmnopqrstuvwxyzãâîçþ"
UpperS == "ABCDEFGHIJKLMNOPQRSTUVWXYZÃÂÎÇÞ"
AsciiLower == CharSet("abcdefghijklmnopqrstuvwxyz")
Letters == CharSet(LowerS) \cup CharSet(UpperS)
\* \w
WordChars == Letters \cup Digits \cup {"_"}

ToLower == [c \in CharSet(UpperS) |->
              SubSeq(LowerS, CHOOSE j \in 1..Len(UpperS) : SubSeq(UpperS, j, j) = c,
                             CHOOSE j \in 1..Len(UpperS) : SubSeq(UpperS, j, j) = c)]
ToUpper == [c \in CharSet(LowerS) |->
              SubSeq(UpperS, CHOOSE j \in 1..Len(LowerS) : SubSeq(LowerS, j, j) = c,
                             CHOOSE j \in 1..Len(LowerS) : SubSeq(LowerS, j, j) = c)]
lower_char(c) == IF c \in DOMAIN ToLower THEN ToLower[c] ELSE c
upper_char(c) == IF c \in DOMAIN ToUpper THEN ToUpper[c] ELSE c

\* The characters of s.upper(), and of s as a pattern compiled with re.I
\* reads it (its own literals are written in lower case below).
upper(s) == <<>> \o [i \in 1..Len(s) |-> upper_char(SubSeq(s, i, i))]
casefold(s) == <<>> \o [i \in 1..Len(s) |-> lower_char(SubSeq(s, i, i))]

\* The string made of the characters cs[a..b].
RECURSIVE StrOf(_, _, _)
StrOf(cs, a, b) ==
  IF a > b THEN ""
  ELSE IF a = b THEN cs[a]
  ELSE StrOf(cs, a, (a + b) \div 2) \o StrOf(cs, (a + b) \div 2 + 1, b)

\* s.strip(chars), s.rstrip(chars); s.strip() strips the white space.
strip_chars(s, S) ==
  LET keep == {i \in 1..Len(s) : SubSeq(s, i, i) \notin S}
  IN IF keep = {} THEN "" ELSE SubSeq(s, Min(keep), Max(keep))
rstrip_chars(s, S) ==
  LET keep == {i \in 1..Len(s) : SubSeq(s, i, i) \notin S}
  IN IF keep = {} THEN "" ELSE SubSeq(s, 1, Max(keep))
strip(s) == strip_chars(s, Spaces)

\* s.title(): a letter is upper-cased after a non-letter, lower-cased after
\* a letter.
title(s) ==
  StrOf([i \in 1..Len(s) |->
           IF i > 1 /\ SubSeq(s, i - 1, i - 1) \in Letters
           THEN lower_char(SubSeq(s, i, i)) ELSE upper_char(SubSeq(s, i, i))], 1, Len(s))

\* s.find(t)
find(s, t) ==
  LET at == {i \in 0..(Len(s) - Len(t)) : SubSeq(s, i + 1, i + Len(t)) = t}
  IN IF at = {} THEN -1 ELSE Min(at)

startswith(s, p) == Len(s) >= Len(p) /\ SubSeq(s, 1, Len(p)) = p

\* s.splitlines()
text_splitlines(s) ==
  LET nl == {i \in 1..Len(s) : SubSeq(s, i, i) = "\n"}
      n == Cardinality(nl)
      pos(k) == CHOOSE p \in nl : Cardinality({q \in nl : q < p}) = k - 1
      count == IF s = "" THEN 0 ELSE IF SubSeq(s, Len(s), Len(s)) = "\n" THEN n ELSE n + 1
  IN [k \in 1..count |->
        SubSeq(s, IF k = 1 THEN 1 ELSE pos(k - 1) + 1, IF k <= n THEN pos(k) - 1 ELSE Len(s))]

\* The elements of seq at the indices in idx, in order.
SubseqAt(seq, idx) ==
  [k \in 1..Cardinality(idx) |-> seq[CHOOSE i \in idx : Cardinality({j \in idx : j < i}) = k - 1]]

\* list(dict.fromkeys(seq))
fromkeys(seq) == SubseqAt(seq, {i \in 1..Len(seq) : \A j \in 1..(i - 1) : seq[j] # seq[i]})

(***************************************************************************)
(* Regular expressions.  A pattern is a tree; Match runs Python's          *)
(* backtracking search: alternatives in order, greedy repetitions longest  *)
(* first, lazy ones shortest first, with the rest of the pattern as the    *)
(* continuation rs.  Groups are numbered as in the pattern.                *)
(***************************************************************************)
Lit(str) == <<"lit", Chars(str)>>
Set(S) == <<"set", S>>
NSet(S) == <<"nset", S>>
Cat(rs) == <<"cat", rs>>
Alt(rs) == <<"alt", rs>>
\* r{lo,hi}; hi = -1 is no upper limit
Rep(r, lo, hi) == <<"rep", r, lo, hi, TRUE>>
Lazy(r, lo, hi) == <<"rep", r, lo, hi, FALSE>>
Opt(r) == Rep(r, 0, 1)
Star(r) == Rep(r, 0, -1)
Plus(r) == Rep(r, 1, -1)
\* \b, $, (?m)^, (?=r), (r)
B == <<"b">>
Eos == <<"eos">>
Bol == <<"bol">>
La(r) == <<"la", r>>
Grp(k, r) == <<"grp", k, r>>

NoGroups == <<<<-1, -1>>, <<-1, -1>>>>
NoMatch == [found |-> FALSE, start |-> -1, end |-> -1, g |-> NoGroups]
IsWordAt(s, i) == i >= 0 /\ i < Len(s) /\ s[i + 1] \in WordChars
OneChar(r, c) == IF r[1] = "set" THEN c \in r[2] ELSE c \notin r[2]
IsOneChar(r) == r[1] \in {"set", "nset"}

\* How many characters from offset i on are in the class r (at most hi).
RECURSIVE RunLen(_, _, _, _)
RunLen(r, s, i, hi) ==
  IF hi # 0 /\ i < Len(s) /\ OneChar(r, s[i + 1]) THEN 1 + RunLen(r, s, i + 1, hi - 1) ELSE 0

RECURSIVE Match(_, _, _, _), TryAlts(_, _, _, _, _, _)
TryAlts(alts, k, rest, s, i, g) ==
  IF k > Len(alts) THEN NoMatch
  ELSE LET m == Match(<<alts[k]>> \o rest, s, i, g)
       IN IF m.found THEN m ELSE TryAlts(alts, k + 1, rest, s, i, g)

Match(rs, s, i, g) ==
  IF Len(rs) = 0 THEN [found |-> TRUE, start |-> -1, end |-> i, g |-> g]
  ELSE LET r == rs[1]
           rest == Tail(rs)
       IN CASE r[1] = "lit" ->
                 IF i + Len(r[2]) <= Len(s) /\ \A k \in 1..Len(r[2]) : s[i + k] = r[2][k]
                 THEN Match(rest, s, i + Len(r[2]), g) ELSE NoMatch
            [] r[1] \in {"set", "nset"} ->
                 IF i < Len(s) /\ OneChar(r, s[i + 1]) THEN Match(rest, s, i + 1, g) ELSE NoMatch
            [] r[1] = "cat" -> Match(r[2] \o rest, s, i, g)
            [] r[1] = "alt" -> TryAlts(r[2], 1, rest, s, i, g)
            [] r[1] = "rep" ->
                 IF IsOneChar(r[2])
                 THEN LET run == RunLen(r[2], s, i, r[4])
                          oks == {k \in r[3]..run : Match(rest, s, i + k, g).found}
                      IN IF oks = {} THEN NoMatch
                         ELSE Match(rest, s, i + (IF r[5] THEN Max(oks) ELSE Min(oks)), g)
                 ELSE LET again == <<r[2], <<"rep", r[2], IF r[3] > 0 THEN r[3] - 1 ELSE 0,
                                            IF r[4] > 0 THEN r[4] - 1 ELSE r[4], r[5]>>>> \o rest
                          more == IF r[4] = 0 THEN NoMatch ELSE Match(again, s, i, g)
                          stop == IF r[3] = 0 THEN Match(rest, s, i, g) ELSE NoMatch
                      IN IF r[5] THEN (IF more.found THEN more ELSE stop)
                         ELSE (IF stop.found THEN stop ELSE more)
            [] r[1] = "b" ->
                 IF IsWordAt(s, i - 1) # IsWordAt(s, i) THEN Match(rest, s, i, g) ELSE NoMatch
            [] r[1] = "eos" ->
                 IF i = Len(s) \/ (i = Len(s) - 1 /\ s[i + 1] = "\n")
                 THEN Match(rest, s, i, g) ELSE NoMatch
            [] r[1] = "bol" ->
                 IF i = 0 \/ s[i] = "\n" THEN Match(rest, s, i, g) ELSE NoMatch
            [] r[1] = "la" ->
                 IF Match(<<r[2]>>, s, i, g).found THEN Match(rest, s, i, g) ELSE NoMatch
            [] r[1] = "grp" -> Match(<<r[3], <<"end", r[2], i>>>> \o rest, s, i, g)
            [] r[1] = "end" -> Match(rest, s, i, [g EXCEPT ![r[2]] = <<r[3], i>>])

\* rx.search(s, pos): the leftmost match starting at or after pos.
search(rx, s, pos) ==
  LET starts == {i \in pos..Len(s) : Match(<<rx>>, s, i, NoGroups).found}
  IN IF starts = {} THEN NoMatch
     ELSE [Match(<<rx>>, s, Min(starts), NoGroups) EXCEPT !.start = Min(starts)]

\* rx.finditer(s): the successive non-overlapping matches.
RECURSIVE finditer_from(_, _, _)
finditer_from(rx, s, pos) ==
  LET m == search(rx, s, pos)
  IN IF ~m.found THEN <<>>
     ELSE <<m>> \o finditer_from(rx, s, IF m.end > m.start THEN m.end ELSE m.end + 1)
finditer(rx, s) == finditer_from(rx, s, 0)

AttributeError == "AttributeError"
\* m.group(k) of a match in text; None has no attribute group.
group(m, text, k) ==
  IF ~m.found THEN AttributeError
  ELSE IF k = 0 THEN Substr(text, m.start, m.end)
  ELSE Substr(text, m.g[k][1], m.g[k][2])

\* \s*, \s+, \d, \.
Ws == Star(Set(Spaces))
Ws1 == Plus(Set(Spaces))
D == Set(Digits)
Dot == Set({"."})
\* X\.?\s*Y\.?  for the letters ls
Abbrev(ls) ==
  Cat([k \in 1..(3 * Len(ls) - 1) |->
         CASE k % 3 = 1 -> Lit(ls[(k + 2) \div 3])
           [] k % 3 = 2 -> Opt(Dot)
           [] OTHER -> Ws])

LEGAL_FORM_RX ==
  Cat(<<B, Grp(1, Alt(<<Abbrev(<<"s", "a">>), Abbrev(<<"s", "r", "l">>),
                        Abbrev(<<"p", "f", "a">>), Abbrev(<<"s", "n", "c">>)>>)), B>>)
END_MARK_RX ==
  Cat(<<Lit("("), Ws, Plus(D), Ws, Lit("/"), Ws, Rep(D, 1, 3),
        Plus(Cat(<<Lit("."), Rep(D, 3, 3)>>)), Ws, Lit(")")>>)
RE_CUI ==
  Cat(<<B, Alt(<<Lit("cui"),
                 Cat(<<Lit("cod"), Opt(Lit("ul")), Ws1, Lit("unic"), Opt(Cat(<<Ws1, Lit("de")>>)),
                       Ws1, Lit("înregistrare")>>)>>),
        Ws, Opt(Set({":", "-"})), Ws, Opt(Cat(<<Lit("ro"), Ws>>)), Grp(1, Rep(D, 6, 10)), B>>)
RE_REGNO ==
  Cat(<<B, Set({"j", "c", "f"}), Ws, Rep(D, 1, 2), Lit("/"), Rep(D, 1, 6), Lit("/"), Rep(D, 4, 4), B>>)
RE_EUID ==
  Cat(<<B, Alt(<<Cat(<<Lit("roonrc."), Set(AsciiLower), Plus(D)>>),
                 Cat(<<Rep(Set(AsciiLower), 2, -1), Opt(Dot), Lit("onrc."), Set(AsciiLower),
                       Rep(D, 1, 2), Lit("/"), Rep(D, 3, 8), Lit("/"), Rep(D, 4, 4)>>)>>), B>>)
RE_CAEN_LISTLINE == Cat(<<Bol, Ws, Grp(1, Rep(D, 4, 4)), Ws, Lit("-"), Ws1>>)
RE_CAEN_INLINE ==
  Cat(<<B, Alt(<<Lit("caen"), Cat(<<Lit("grupa"), Ws1, Lit("caen")>>)>>),
        Plus(NSet(Digits)), Grp(1, Rep(D, 4, 4)), B>>)
RE_CAPITAL ==
  Cat(<<B, Lit("capital"), Ws1, Lit("social"), Ws, Lit(":"), Ws, Grp(1, Plus(NSet({";", "\n"})))>>)
STOP_WORDS ==
  Alt(<<Lit("înregistratã"), Lit("având"), Lit("reprezentând"),
        Cat(<<Lit("la"), Ws1, Lit("data"), Ws1, Lit("de")>>),
        Lit("domiciliat"), Lit("identificat"), Lit("deþinând"),
        Cat(<<Lit("cod"), Ws1, Lit("unic")>>), Lit("cui"),
        Cat(<<Lit("am"), Ws1, Lit("decis")>>), Eos>>)
\* ([^;\n]+?)(?=,?\s*STOP_WORDS), the capture being group k
UpToStopWord(k) ==
  Cat(<<Grp(k, Lazy(NSet({";", "\n"}), 1, -1)), La(Cat(<<Opt(Lit(",")), Ws, STOP_WORDS>>))>>)
RE_SEDIU_COLON ==
  Cat(<<B, Alt(<<Cat(<<Lit("sediul"), Ws1, Lit("social")>>), Lit("sediul")>>),
        Ws, Lit(":"), Ws, UpToStopWord(1)>>)
RE_SEDIU_IN ==
  Cat(<<B, Lit("cu"), Ws1, Lit("sediul"), Ws1, Lit("social"), Ws1, Alt(<<Lit("în"), Lit("in")>>),
        Ws1, UpToStopWord(1)>>)
RE_ADDRESS_FALLBACK ==
  Cat(<<B, Lit("în"), Ws1,
        Grp(1, Alt(<<Lit("satul"), Lit("municipiul"), Lit("oraçul"), Cat(<<Lit("mun"), Opt(Dot)>>),
                     Cat(<<Lit("jud"), Opt(Dot)>>), Lit("com.")>>)),
        Ws1, UpToStopWord(2)>>)
RE_BULLETIN_H1 ==
  Cat(<<Lit("partea"), Ws1, Lit("a"), Ws1, Lit("iv-a"), Ws1, Lit("nr."), Ws, Grp(1, Plus(D)),
        Ws1, Lit("din"), Ws1,
        Grp(2, Cat(<<Rep(D, 2, 2), Lit("."), Rep(D, 2, 2), Lit("."), Rep(D, 4, 4)>>))>>)
RE_DOC_TYPE ==
  Cat(<<B, Grp(1, Alt(<<Lit("notificare"),
                        Cat(<<Lit("hot"), Set({"ã", "a"}), Lit("r"), Set({"â", "a"}), Lit("re")>>),
                        Lit("decizie"),
                        Cat(<<Lit("în"), Set({"ç", "s"}), Lit("tiin"), Set({"þ", "t"}), Lit("are")>>)>>)),
        B>>)

(***************************************************************************)
(* A parsed page (the soup) is the sequence of its text-bearing elements   *)
(* in document order, each with its tag and its text.                      *)
(***************************************************************************)
Node(tag, text) == [tag |-> tag, text |-> text]
H1(text) == Node("h1", text)
Strong(text) == Node("strong", text)
Text(text) == Node("text", text)

find_all(soup, tag) == SelectSeq(soup, LAMBDA n : n.tag = tag)

\* soup.get_text(sep): the texts of the page joined by sep.
RECURSIVE get_text_from(_, _, _)
get_text_from(soup, sep, k) ==
  IF k > Len(soup) THEN ""
  ELSE IF k = Len(soup) THEN soup[k].text
  ELSE soup[k].text \o sep \o get_text_from(soup, sep, k + 1)
get_text(soup, sep) == get_text_from(soup, sep, 1)

_clean_text(s) ==
  LET blank(i) == SubSeq(s, i, i) \in {" ", "\t", NBSP}
      piece == [i \in 1..Len(s) |->
                  IF blank(i) THEN (IF i > 1 /\ blank(i - 1) THEN "" ELSE " ")
                  ELSE IF SubSeq(s, i, i) = "\n"
                       THEN (IF i > 1 /\ SubSeq(s, i - 1, i - 1) = "\n" THEN "" ELSE "\n")
                       ELSE SubSeq(s, i, i)]
  IN strip(StrOf(piece, 1, Len(s)))

_full_text(soup) == _clean_text(get_text(soup, "\n"))

\* re.search(r'\bX\.?\s*Y\.?\b', t) for the letters ls
HasAbbrev(ls, t) == search(Cat(<<B, Abbrev(ls), B>>), t, 0).found

_categorize_legal_form(text) ==
  LET t == upper(IF text = None THEN "" ELSE text)
  IN IF HasAbbrev(<<"S", "A">>, t) THEN "SA"
     ELSE IF HasAbbrev(<<"S", "R", "L">>, t) THEN "SRL"
     ELSE IF HasAbbrev(<<"P", "F", "A">>, t) THEN "PFA"
     ELSE IF HasAbbrev(<<"S", "N", "C">>, t) THEN "SNC"
     ELSE "OTHER"

\* strongs.sort(key=lambda x: x[0]), a stable sort
RECURSIVE sort_by_sidx(_)
sort_by_sidx(strongs) ==
  IF Len(strongs) <= 1 THEN strongs
  ELSE LET init == sort_by_sidx(SubSeq(strongs, 1, Len(strongs) - 1))
           x == strongs[Len(strongs)]
           before == {i \in 1..Len(init) : init[i].sidx <= x.sidx}
           n == IF before = {} THEN 0 ELSE Max(before)
       IN SubSeq(init, 1, n) \o <<x>> \o SubSeq(init, n + 1, Len(init))

_find_segments_via_strong(html) ==
  LET full == _full_text(html)
      sts == find_all(html, "strong")
      st_text(k) == _clean_text(strip(sts[k].text))
      kept == {k \in 1..Len(sts) :
                 /\ st_text(k) # ""
                 /\ search(LEGAL_FORM_RX, casefold(st_text(k)), 0).found
                 /\ find(full, st_text(k)) # -1}
      found == [k \in 1..Len(sts) |-> [sidx |-> find(full, st_text(k)), st_text |-> st_text(k)]]
      strongs == sort_by_sidx(SubseqAt(found, kept))
      m(k) == search(END_MARK_RX, Chars(full), strongs[k].sidx)
      segments == [k \in 1..Len(strongs) |->
                     [sidx |-> strongs[k].sidx, eidx |-> m(k).end, st_text |-> strongs[k].st_text]]
  IN SubseqAt(segments, {k \in 1..Len(strongs) : m(k).found})

_extract_bulletin_meta(soup) ==
  LET h1 == find_all(soup, "h1")
      text == _clean_text(h1[1].text)
      m == search(RE_BULLETIN_H1, casefold(text), 0)
      full_date == group(m, text, 2)
  IN IF Len(h1) = 0 \/ ~m.found THEN <<None, None, None>>
     ELSE <<group(m, text, 1), full_date, SubSeq(full_date, Len(full_date) - 3, Len(full_date))>>

\* "if x:" for an optional string
Truthy(x) == x # None /\ x # ""

\* The local variables of _extract_entry, each as a function of the
\* arguments it is computed from.
cui_unguarded(chunk) == group(search(RE_CUI, casefold(chunk), 0), chunk, 1)

cui(chunk) ==
  LET m == search(RE_CUI, casefold(chunk), 0)
  IN IF m.found THEN group(m, chunk, 1) ELSE None

regno(chunk) ==
  LET m == search(RE_REGNO, casefold(chunk), 0)
  IN IF m.found THEN group(m, chunk, 0) ELSE None

euid(chunk) ==
  LET m == search(RE_EUID, casefold(chunk), 0)
  IN IF m.found THEN group(m, chunk, 0) ELSE None

caen_codes(chunk) ==
  LET listed == finditer(RE_CAEN_LISTLINE, Chars(chunk))
      inline == finditer(RE_CAEN_INLINE, casefold(chunk))
  IN fromkeys([k \in 1..Len(listed) |-> group(listed[k], chunk, 1)]
                \o [k \in 1..Len(inline) |-> group(inline[k], chunk, 1)])

capital(chunk) ==
  LET m_cap == search(RE_CAPITAL, casefold(chunk), 0)
  IN IF m_cap.found THEN rstrip_chars(strip(group(m_cap, chunk, 1)), {";", "."}) ELSE None

address(chunk) ==
  LET colon == search(RE_SEDIU_COLON, casefold(chunk), 0)
      prep == search(RE_SEDIU_IN, casefold(chunk), 0)
      fallback == search(RE_ADDRESS_FALLBACK, casefold(chunk), 0)
      trim(s) == strip_chars(s, {" ", ",", ";", "."})
  IN IF colon.found THEN trim(group(colon, chunk, 1))
     ELSE IF prep.found THEN trim(group(prep, chunk, 1))
     ELSE IF fallback.found THEN trim(group(fallback, chunk, 0))
     ELSE None

doc_type(chunk) ==
  LET m == search(RE_DOC_TYPE, casefold(chunk), 0)
  IN IF m.found THEN title(group(m, chunk, 1)) ELSE None

company_name(chunk, name_hint) ==
  LET lines == text_splitlines(chunk)
      hits == {k \in 1..Len(lines) : search(LEGAL_FORM_RX, casefold(lines[k]), 0).found}
  IN IF Truthy(name_hint) \/ hits = {} THEN name_hint ELSE strip(lines[Min(hits)])

legal_type(chunk, name) == _categorize_legal_form(IF Truthy(name) THEN name ELSE chunk)

\* The result is the Entry, with err when a step of the body raises.
_extract_entry(chunk, name_hint, bulletin_info) ==
  LET c == cui(chunk)
      r == regno(chunk)
      e == euid(chunk)
      name == company_name(chunk, name_hint)
      form == legal_type(chunk, name)
  IN [err |-> AttributeError \in {c, r, e},
      entry |->
        [number |-> bulletin_info[1],
         date |-> bulletin_info[2],
         year |-> bulletin_info[3],
         company_name |-> name,
         meta |-> [cui |-> c,
                   legal_type |-> IF form \in {"SRL", "SA", "PFA", "SNC"} THEN form ELSE None,
                   reg_number |-> r,
                   euid |-> e,
                   caen |-> caen_codes(chunk),
                   capital |-> capital(chunk),
                   address |-> address(chunk)],
         raw_text |-> chunk,
         type |-> doc_type(chunk)]]

\* The shortest chunk parse_file keeps.
MinChunkLen == 80

TooShortOrEqual(chunk) == Len(chunk) <= MinChunkLen

TooShort(chunk) == Len(chunk) < MinChunkLen

\* The loop of parse_file over the segments.
parse_segments(full, segs, bulletin_info) ==
  LET chunk == [k \in 1..Len(segs) |-> _clean_text(Substr(full, segs[k].sidx, segs[k].eidx))]
      out == SubseqAt([k \in 1..Len(segs) |->
                         _extract_entry(chunk[k], segs[k].st_text, bulletin_info)],
                      {k \in 1..Len(segs) : ~TooShort(chunk[k])})
  IN [err |-> \E k \in 1..Len(out) : out[k].err,
      entries |-> [k \in 1..Len(out) |-> out[k].entry]]

\* path stands for the parsed text of the file.
parse_file(path) ==
  parse_segments(_full_text(path), _find_segments_via_strong(path), _extract_bulletin_meta(path))

(***************************************************************************)
(* Specification SpecSegments: _find_segments_via_strong on small pages    *)
(***************************************************************************)
\* Longest page, in elements.
MaxNodes == 3

SegmentNodes ==
  {Strong("ALFA SRL"), Strong(" BETA  S.A. "), Strong("Nota"), Text("(1/1.000)"),
   Text("cu  sediul (2 / 12.345.678 )")}

InitSegments == pc = "ready" /\ input \in SeqsUpTo(SegmentNodes, MaxNodes) /\ output = None

FindSegments ==
  /\ pc = "ready"
  /\ output' = _find_segments_via_strong(input)
  /\ pc' = "segmented"
  /\ UNCHANGED input

SpecSegments == InitSegments /\ [][FindSegments]_vars

\* C6: the chunks returned by _find_segments_via_strong are in ascending start
\* order and do not overlap: a chunk ends at or before the start of every
\* later chunk, also when no closing marker lies between two anchors and when
\* two anchors have the same text (stated as written; the code violates it).
C6_ChunksDoNotOverlap ==
  pc = "segmented" =>
    \A i, j \in 1..Len(output) :
      i < j => output[i].sidx <= output[j].sidx /\ output[i].eidx <= output[j].sidx

\* The order part alone.
ChunksAscend ==
  pc = "segmented" => \A i, j \in 1..Len(output) : i < j => output[i].sidx <= output[j].sidx

(***************************************************************************)
(* Specification SpecParseFile: parse_file on pages of notices             *)
(***************************************************************************)
\* Most notices on a page.
MaxSections == 3

Dots == "............................................................"
\* s followed by dots up to n characters
Pad(s, n) == s \o SubSeq(Dots, 1, n - Len(s))

Marker == "(45/123.456)"
Notice(name, body) == <<Strong(name), Text(body), Text(Marker)>>

\* Notices whose chunks are 80, 79 (80 before cleaning) and 81 characters
\* long.
Notices ==
  {Notice("ACME S.R.L.", Pad("CUI: 12345678, sediul: Cluj, identificat", 55)),
   Notice("BETA S.A.", Pad("NOTIFICARE capital  social: 200 lei; sediul: Dej", 57)),
   Notice("DELTA PFA", Pad("J12/345/2020", 58))}

RECURSIVE Flatten(_)
Flatten(ss) == IF ss = <<>> THEN <<>> ELSE Head(ss) \o Flatten(Tail(ss))

PageHeads == {<<>>, <<H1("Monitorul Oficial, Partea a IV-a nr. 12 din 01.01.2020")>>}
Pages == {h \o Flatten(ns) : h \in PageHeads, ns \in SeqsUpTo(Notices, MaxSections)}

InitParseFile == pc = "ready" /\ input \in Pages /\ output = None

ParseFile ==
  /\ pc = "ready"
  /\ output' = parse_file(input)
  /\ pc' = "parsed"
  /\ UNCHANGED input

SpecParseFile == InitParseFile /\ [][ParseFile]_vars

\* The cleaned chunks of the page, in the order of the segments.
ChunksOf(page) ==
  LET segs == _find_segments_via_strong(page)
  IN [k \in 1..Len(segs) |-> _clean_text(Substr(_full_text(page), segs[k].sidx, segs[k].eidx))]

RawTexts(entries) == [k \in 1..Len(entries) |-> entries[k].raw_text]

\* C7: parse_file outputs no entry for a chunk whose cleaned length is below
\* 80: the entries are, in order, those of the chunks of 80 characters or
\* more (a chunk of exactly 80 is kept, one of 79 is dropped, and dropping a
\* chunk neither drops nor reorders the others).
C7_ShortChunksDropped ==
  pc = "parsed" =>
    /\ \A k \in 1..Len(output.entries) : Len(output.entries[k].raw_text) >= 80
    /\ RawTexts(output.entries) = SelectSeq(ChunksOf(input), LAMBDA c : Len(c) >= 80)

\* A page with a chunk of 79 characters followed by one of 80 and one of 81:
\* the first is dropped, the other two are kept in order.
C7_Witness ==
  /\ pc = "parsed"
  /\ Len(ChunksOf(input)) = 3
  /\ Len(ChunksOf(input)[1]) = 79
  /\ Len(ChunksOf(input)[2]) = 80
  /\ Len(ChunksOf(input)[3]) = 81
  /\ RawTexts(output.entries) = <<ChunksOf(input)[2], ChunksOf(input)[3]>>

(***************************************************************************)
(* Specification SpecRecover: _extract_entry on chunks built from clauses  *)
(***************************************************************************)
ChunkHeads == {"ACME S.R.L.", "Grupul Alfa", "HOTÃRÂRE Grupul S\na fost"}
CuiClauses == {"", " ... CUI: 12345678", " ... Codul unic de înregistrare - RO 4455667,"}
AddressClauses ==
  {"",
   " ... sediul social: Str. Exemplu nr.1, jud. Cluj; înregistratã",
   " ... sediul social: Str. Exemplu nr.1, jud. Cluj, înregistratã",
   " cu sediul social în Dej , identificat",
   " în mun. Turda,   având"}
OtherClauses ==
  {"", "; capital social: 200 lei. ;\n 6201 - software\nCAEN: 6201, grupa CAEN 6202 J12/345/2020 ROONRC.J12/345/2020"}
ChunkTail == " ... (45/123.456)"

Chunks ==
  {h \o c \o a \o o \o ChunkTail :
     h \in ChunkHeads, c \in CuiClauses, a \in AddressClauses, o \in OtherClauses}

ExampleChunk ==
  "ACME S.R.L. ... CUI: 12345678 ... sediul social: Str. Exemplu nr.1, jud. Cluj; înregistratã ... (45/123.456)"
ExampleBulletin == <<"12", "01.01.2020", "2020">>

InitRecover ==
  /\ pc = "ready"
  /\ input \in [chunk : Chunks, name_hint : {None, "", "ACME S.R.L."},
                bulletin_info : {ExampleBulletin}]
  /\ output = None

ExtractEntry ==
  /\ pc = "ready"
  /\ output' = _extract_entry(input.chunk, input.name_hint, input.bulletin_info)
  /\ pc' = "recovered"
  /\ UNCHANGED input

SpecRecover == InitRecover /\ [][ExtractEntry]_vars

\* C8: recovering the fields of the example chunk with bulletin info
\* ("12", "01.01.2020", "2020") yields company_name "ACME S.R.L.", meta.cui
\* "RO12345678", meta.legal_type SRL and a meta.address that starts with
\* "Str. Exemplu nr.1, jud. Cluj" (stated as written; the code violates it).
C8_EndToEnd ==
  (pc = "recovered" /\ input.chunk = ExampleChunk /\ input.name_hint = "ACME S.R.L."
     /\ input.bulletin_info = ExampleBulletin) =>
    /\ ~output.err
    /\ output.entry.company_name = "ACME S.R.L."
    /\ output.entry.meta.cui = "RO12345678"
    /\ output.entry.meta.legal_type = "SRL"
    /\ startswith(output.entry.meta.address, "Str. Exemplu nr.1, jud. Cluj")

\* What the code does recover from the example chunk.
ExampleRecovered ==
  (pc = "recovered" /\ input.chunk = ExampleChunk /\ input.name_hint = "ACME S.R.L."
     /\ input.bulletin_info = ExampleBulletin) =>
    /\ ~output.err
    /\ output.entry.number = "12" /\ output.entry.date = "01.01.2020" /\ output.entry.year = "2020"
    /\ output.entry.company_name = "ACME S.R.L."
    /\ output.entry.meta.cui = "12345678"
    /\ output.entry.meta.legal_type = "SRL"
    /\ output.entry.meta.address = None

Matches(rx, s) == search(rx, s, 0).found
\* The chunk holds a legal-form token.
HasLegalForm(chunk) == Matches(LEGAL_FORM_RX, casefold(chunk))

\* C9: _extract_entry never raises; for a chunk with no legal-form token and
\* no name hint, company_name and legal_type are absent; a field whose
\* pattern has no match in the chunk is absent (None, the empty list for the
\* activity codes), and a field whose pattern has a match is recovered
\* whatever the other fields are.
C9_MissNeverRaises ==
  pc = "recovered" =>
    LET chunk == input.chunk
        low == casefold(chunk)
        meta == output.entry.meta
    IN /\ ~output.err
       /\ (~HasLegalForm(chunk) /\ input.name_hint = None)
            => (output.entry.company_name = None /\ meta.legal_type = None)
       /\ Matches(RE_CUI, low) <=> meta.cui # None
       /\ Matches(RE_REGNO, low) <=> meta.reg_number # None
       /\ Matches(RE_EUID, low) <=> meta.euid # None
       /\ Matches(RE_CAPITAL, low) <=> meta.capital # None
       /\ Matches(RE_DOC_TYPE, low) <=> output.entry.type # None
       /\ (Matches(RE_SEDIU_COLON, low) \/ Matches(RE_SEDIU_IN, low)
             \/ Matches(RE_ADDRESS_FALLBACK, low)) <=> meta.address # None
       /\ (Matches(RE_CAEN_LISTLINE, Chars(chunk)) \/ Matches(RE_CAEN_INLINE, low))
            <=> meta.caen # <<>>

\* A chunk with no legal-form token, no hint and no tax id, whose address and
\* activity codes are recovered all the same.
C9_Witness ==
  /\ pc = "recovered"
  /\ ~HasLegalForm(input.chunk)
  /\ input.name_hint = None
  /\ ~output.err
  /\ output.entry.company_name = None
  /\ output.entry.meta.legal_type = None
  /\ output.entry.meta.cui = None
  /\ output.entry.meta.address = "Dej"
  /\ output.entry.meta.caen = <<"6201", "6202">>

(***************************************************************************)
(* Tax-id normalization: src/leg5_src/parser/hybrid_parser.py and          *)
(* src/leg5_src/parser/parser.py.                                          *)
(***************************************************************************)
\* f"RO{mcui}" if not mcui.startswith("RO") else mcui
always_prefixed(mcui) == "RO" \o mcui

normalize_cui(mcui) == IF ~startswith(mcui, "RO") THEN "RO" \o mcui ELSE mcui

\* JSON null where a dict may stand: CompanyModel.mainInfo defaults to None.
Null == [null |-> TRUE]
IsNull(d) == DOMAIN d = {"null"}

\* The segment's tax id always replaces the result's.
merged_cui_overwriting(meta, mi) ==
  IF Truthy(meta.cui) THEN normalize_cui(meta.cui) ELSE mi.cui

\* mi["cui"] after lines 44-46.
merged_cui(meta, mi) ==
  IF Truthy(meta.cui) /\ ~Truthy(mi.cui) THEN normalize_cui(meta.cui) ELSE mi.cui

\* mi["registrationNumber"] after lines 47-48.
merged_regno(meta, mi) ==
  IF Truthy(meta.reg_number) /\ ~Truthy(mi.registrationNumber)
  THEN meta.reg_number ELSE mi.registrationNumber

\* seg is the stored segment, obj the structured result, a dict that may lack
\* the key "legalForm"; keys of meta and of mainInfo that are absent are None.
\* Both producers of obj give it the key "mainInfo", so setdefault returns its
\* value, a dict or null, and null has no attribute get: the "and" of lines 44
\* and 47 reaches mi.get only when the segment carries the value.
_merge_segment_meta(seg, obj) ==
  LET meta == seg.meta
      mi == obj.mainInfo
  IN IF IsNull(mi)
     THEN (IF Truthy(meta.cui) \/ Truthy(meta.reg_number)
           THEN [err |-> TRUE, exc |-> AttributeError, obj |-> obj]
           ELSE [err |-> FALSE, exc |-> None, obj |-> ("legalForm" :> "SRL") @@ obj])
     ELSE [err |-> FALSE, exc |-> None,
           obj |-> ("legalForm" :> "SRL")
                   @@ [obj EXCEPT !.mainInfo =
                         [mi EXCEPT !.cui = merged_cui(meta, mi),
                                    !.registrationNumber = merged_regno(meta, mi)]]]

\* The "cui" entry of mainInfo in extract_structured_company.
structured_cui(cui_found) ==
  IF Truthy(cui_found)
  THEN (IF Truthy(cui_found) /\ ~startswith(cui_found, "RO") THEN "RO" \o cui_found ELSE cui_found)
  ELSE None

(***************************************************************************)
(* Specification SpecNormalize: the tax id through the merge, twice        *)
(***************************************************************************)
\* Longest digit string drawn.
MaxDigits == 4

DigitStrings == {StrOf(ds, 1, Len(ds)) : ds \in (SeqsUpTo({"0", "1", "9"}, MaxDigits) \ {<<>>})}
TaxIds ==
  {p \o d : p \in {"", "RO"}, d \in DigitStrings \cup {"12345678"}}

EmptyObj == [mainInfo |-> [cui |-> None, registrationNumber |-> None], legalForm |-> None]
SegOf(c) == [meta |-> [cui |-> c, reg_number |-> None]]

InitNormalize == pc = "ready" /\ input \in TaxIds /\ output = None

\* The tax id of a stored segment is merged into a result that has none.
MergeOnce ==
  /\ pc = "ready"
  /\ output' = _merge_segment_meta(SegOf(input), EmptyObj).obj.mainInfo.cui
  /\ pc' = "once"
  /\ UNCHANGED input

\* The merged tax id is stored and merged again.
MergeTwice ==
  /\ pc = "once"
  /\ output' = _merge_segment_meta(SegOf(output), EmptyObj).obj.mainInfo.cui
  /\ pc' = "twice"
  /\ UNCHANGED input

NextNormalize == MergeOnce \/ MergeTwice

SpecNormalize == InitNormalize /\ [][NextNormalize]_vars

\* s is "RO" followed by a text that does not start with "RO" again.
OneRoPrefix(s) == startswith(s, "RO") /\ ~startswith(SubSeq(s, 3, Len(s)), "RO")

\* C10: normalizing a tax id a second time changes nothing, the normalized id
\* starts with exactly one "RO", and "RO12345678" and "12345678" both give
\* "RO12345678"; the two places that normalize agree.
C10_NormalizeIdempotent ==
  /\ pc = "once" =>
       /\ OneRoPrefix(output)
       /\ output = structured_cui(input)
       /\ input \in {"RO12345678", "12345678"} => output = "RO12345678"
  /\ pc = "twice" =>
       /\ output = _merge_segment_meta(SegOf(input), EmptyObj).obj.mainInfo.cui
       /\ OneRoPrefix(output)

\* "RO12345678" has been normalized twice and is unchanged.
C10_Witness == pc = "twice" /\ input = "RO12345678" /\ output = "RO12345678"

(***************************************************************************)
(* The structured results that are merged: src/leg5_src/parser/parser.py   *)
(* and src/leg5_src/parser/models.py.                                      *)
(***************************************************************************)
\* sub in t
contains(t, sub) == find(t, sub) >= 0

_legal_form_from_name(name) ==
  IF ~Truthy(name) THEN None
  ELSE LET t == StrOf(upper(name), 1, Len(name))
       IN IF contains(t, "S.A") \/ contains(t, " S. A") THEN "SA"
          ELSE IF contains(t, "S.R.L") \/ contains(t, " S. R. L") THEN "SRL"
          ELSE IF contains(t, "P.F.A") \/ contains(t, " P F A") THEN "PFA"
          ELSE None

\* The dict built by extract_structured_company from what its searches of the
\* text found: the company name, the digits of the tax id, the registration
\* number (None when a search finds nothing).  The keys the merge and the
\* write never read are left out.
extract_structured_company(name, cui_found, regno_found) ==
  [type |-> "company",
   name |-> name,
   mainInfo |-> [cui |-> structured_cui(cui_found), registrationNumber |-> regno_found],
   legalForm |-> _legal_form_from_name(name)]

\* json.loads(comp.model_dump_json()) of a CompanyModel: every field of the
\* model is a key, None by default, and there is no key "legalForm".
CompanyModel(name, mainInfo) == [type |-> "company", name |-> name, mainInfo |-> mainInfo]
MainInfo(cui_value, registrationNumber) ==
  [cui |-> cui_value, registrationNumber |-> registrationNumber]

(***************************************************************************)
(* Specification SpecMerge: one merge of a segment's metadata into a       *)
(* heuristic or a model-produced result                                    *)
(***************************************************************************)
Names == {None, "ALFA S.R.L.", "BETA S.A.", "GAMA P.F.A.", "DELTA"}
MetaCuis == {None, "", "456", "RO456"}
RegNumbers == {None, "J40/1/2021"}
Segments == {[meta |-> [cui |-> c, reg_number |-> r]] : c \in MetaCuis, r \in RegNumbers}

HeuristicResults ==
  {extract_structured_company(n, c, r) : n \in Names, c \in {None, "123"},
                                         r \in {None, "J12/345/2020"}}
LlmResults ==
  {CompanyModel(n, mi) :
     n \in {None, "", "ALFA S.R.L."},
     mi \in {Null} \cup {MainInfo(c, r) : c \in {None, "", "RO789"},
                                          r \in {None, "J12/345/2020"}}}

InitMerge ==
  /\ pc = "ready"
  /\ input \in {[seg |-> s, obj |-> o] : s \in Segments, o \in HeuristicResults \cup LlmResults}
  /\ output = None

Merge ==
  /\ pc = "ready"
  /\ output' = _merge_segment_meta(input.seg, input.obj)
  /\ pc' = "merged"
  /\ UNCHANGED input

NextMerge == Merge

SpecMerge == InitMerge /\ [][NextMerge]_vars

\* C11: a merge into a result whose mainInfo is a dict does not raise and
\* leaves a populated mainInfo.cui and a populated mainInfo.registrationNumber
\* as they were, whatever the segment carries; a field that changed was absent
\* before and now holds the segment's value (the tax id with its "RO").
C11_PopulatedTaxIdKept ==
  (pc = "merged" /\ ~IsNull(input.obj.mainInfo)) =>
    LET before == input.obj.mainInfo
        after == output.obj.mainInfo
        meta == input.seg.meta
    IN /\ ~output.err
       /\ Truthy(before.cui) => after.cui = before.cui
       /\ Truthy(before.registrationNumber) =>
            after.registrationNumber = before.registrationNumber
       /\ after.cui # before.cui =>
            ~Truthy(before.cui) /\ Truthy(meta.cui) /\ after.cui = normalize_cui(meta.cui)
       /\ after.registrationNumber # before.registrationNumber =>
            /\ ~Truthy(before.registrationNumber)
            /\ after.registrationNumber = meta.reg_number
       /\ (~Truthy(before.cui) /\ Truthy(meta.cui)) => after.cui = normalize_cui(meta.cui)

\* A result with tax id RO123 and a registration number meets a segment with
\* another tax id and another registration number and keeps its own.
C11_Witness ==
  /\ pc = "merged"
  /\ ~IsNull(input.obj.mainInfo)
  /\ input.obj.mainInfo.cui = "RO123"
  /\ input.obj.mainInfo.registrationNumber = "J12/345/2020"
  /\ input.seg.meta.cui = "456"
  /\ input.seg.meta.reg_number = "J40/1/2021"
  /\ output.obj.mainInfo.cui = "RO123"
  /\ output.obj.mainInfo.registrationNumber = "J12/345/2020"

\* A value that is there: not None and not empty.
Populated(d, k) == k \in DOMAIN d /\ Truthy(d[k])

\* C12: every field of the result that is populated before the merge (name,
\* legalForm, mainInfo.cui, mainInfo.registrationNumber) holds the same value
\* after it, for heuristic and for model-produced results.
C12_MergeKeepsPopulated ==
  pc = "merged" =>
    /\ \A k \in {"type", "name", "legalForm"} :
         Populated(input.obj, k) => output.obj[k] = input.obj[k]
    /\ ~IsNull(input.obj.mainInfo) =>
         \A k \in {"cui", "registrationNumber"} :
           Populated(input.obj.mainInfo, k) =>
             output.obj.mainInfo[k] = input.obj.mainInfo[k]

\* What does hold: every populated field but legalForm is kept.
MergeKeepsAllButLegalForm ==
  pc = "merged" =>
    /\ \A k \in {"type", "name"} : output.obj[k] = input.obj[k]
    /\ output.err \/ output.obj.legalForm = "SRL"
    /\ ~IsNull(input.obj.mainInfo) =>
         \A k \in {"cui", "registrationNumber"} :
           Populated(input.obj.mainInfo, k) =>
             output.obj.mainInfo[k] = input.obj.mainInfo[k]

(***************************************************************************)
(* The hybrid orchestrator: main of src/leg5_src/parser/hybrid_parser.py   *)
(* and run_llm of src/leg5_src/parser/llm_agent.py.                        *)
(*                                                                         *)
(* input is the command line and the stored files; output holds the local  *)
(* variables of main, the lines written to the aggregate file and the log; *)
(* pc is the position in the loop body.                                    *)
(***************************************************************************)
UnboundLocalError == "UnboundLocalError"

\* run_llm re-raising what its try block catches.
run_llm_unguarded(outcome) ==
  IF outcome.raises
  THEN [err |-> TRUE, ret |-> Null, logged |-> <<>>]
  ELSE [err |-> FALSE, ret |-> outcome.data, logged |-> <<>>]

\* outcome is what the agent does with the request: it raises (the transport
\* or the service fails, or the response does not validate as a CompanyModel)
\* or it gives a CompanyModel, returned as the dict of its JSON dump.
run_llm(outcome) ==
  IF outcome.raises
  THEN [err |-> FALSE, ret |-> Null, logged |-> <<"LLM extraction failed">>]
  ELSE [err |-> FALSE, ret |-> outcome.data, logged |-> <<>>]

\* The stored files of the SRL folder: a file that does not load as JSON, or a
\* segment with what the searches of its raw text find and its metadata.
Unreadable == [valid |-> FALSE]
StoredSegment(name, cui_found, meta_cui) ==
  [valid |-> TRUE, name |-> name, cui_found |-> cui_found, regno_found |-> None,
   meta |-> [cui |-> meta_cui, reg_number |-> None]]

\* Largest number of stored files.
MaxSegments == 2

StoredFiles ==
  {Unreadable} \cup {StoredSegment(n, c, c) : n \in {None, "BETA S.A."}, c \in {None, "456"}}

LlmOutcomes ==
  {[raises |-> TRUE, data |-> Null],
   [raises |-> FALSE, data |-> CompanyModel(None, Null)],
   [raises |-> FALSE, data |-> CompanyModel("", MainInfo(None, None))],
   [raises |-> FALSE, data |-> CompanyModel("ALFA S.R.L.", MainInfo("RO789", "J12/345/2020"))]}

\* The segment the loop is at.
seg == input.files[output.i]

InitHybrid ==
  /\ pc = "loop"
  /\ input \in {[force_llm |-> f, files |-> fs] :
                  f \in BOOLEAN, fs \in SeqsUpTo(StoredFiles, MaxSegments)}
  /\ output = [i |-> 0, n_in |-> 0, n_ok |-> 0, n_llm |-> 0, n_llm_used |-> 0,
               need_bound |-> FALSE, comp |-> Null, llm_comp |-> Null,
               nd |-> <<>>, log |-> <<>>, exc |-> None]

\* _iter_segments: a file that cannot be read is logged and passed over.
SkipUnreadable ==
  /\ pc = "loop"
  /\ output.i < Len(input.files)
  /\ ~input.files[output.i + 1].valid
  /\ output' = [output EXCEPT !.i = @ + 1, !.log = Append(@, "Failed reading")]
  /\ UNCHANGED <<input, pc>>

\* Lines 77-79: the next segment is yielded and counted.
ReadSegment ==
  /\ pc = "loop"
  /\ output.i < Len(input.files)
  /\ input.files[output.i + 1].valid
  /\ output' = [output EXCEPT !.i = @ + 1, !.n_in = @ + 1, !.comp = Null, !.llm_comp = Null]
  /\ pc' = "heuristic"
  /\ UNCHANGED input

\* Lines 82-83: the heuristic result, with the segment's metadata merged in.
Heuristic ==
  /\ pc = "heuristic"
  /\ LET r == _merge_segment_meta(seg,
                extract_structured_company(seg.name, seg.cui_found, seg.regno_found))
     IN IF r.err
        THEN /\ output' = [output EXCEPT !.exc = r.exc]
             /\ pc' = "crashed"
        ELSE /\ output' = [output EXCEPT !.comp = r.obj]
             /\ pc' = "decide"
  /\ UNCHANGED input

\* Lines 84-88: need is assigned only under --force-llm, and then read.
Decide ==
  /\ pc = "decide"
  /\ LET bound == output.need_bound \/ input.force_llm
     IN IF ~bound
        THEN /\ output' = [output EXCEPT !.exc = UnboundLocalError]
             /\ pc' = "crashed"
        ELSE /\ output' = [output EXCEPT !.need_bound = TRUE]
             /\ pc' = "llm"
  /\ UNCHANGED input

\* Lines 89-94: the model is asked; its result, when there is one, gets the
\* segment's metadata and takes the place of the heuristic result.
Llm ==
  /\ pc = "llm"
  /\ \E outcome \in LlmOutcomes :
       LET r == run_llm(outcome)
           mg == _merge_segment_meta(seg, r.ret)
       IN IF r.err
          THEN /\ output' = [output EXCEPT !.n_llm = @ + 1, !.exc = "Exception"]
               /\ pc' = "crashed"
          ELSE IF IsNull(r.ret)
          THEN /\ output' = [output EXCEPT !.n_llm = @ + 1, !.llm_comp = Null,
                                           !.log = @ \o r.logged]
               /\ pc' = "write"
          ELSE IF mg.err
          THEN /\ output' = [output EXCEPT !.n_llm = @ + 1, !.llm_comp = r.ret,
                                           !.exc = mg.exc]
               /\ pc' = "crashed"
          ELSE /\ output' = [output EXCEPT !.n_llm = @ + 1, !.llm_comp = r.ret,
                                           !.comp = mg.obj, !.n_llm_used = @ + 1]
               /\ pc' = "write"
  /\ UNCHANGED input

\* Lines 97-106: the result goes to its own file and to the aggregate file.
Write ==
  /\ pc = "write"
  /\ output' = [output EXCEPT !.nd = Append(@, output.comp), !.n_ok = @ + 1]
  /\ pc' = "loop"
  /\ UNCHANGED input

\* Lines 108-115: the summary, after the last file.
Summary ==
  /\ pc = "loop"
  /\ output.i = Len(input.files)
  /\ output' = [output EXCEPT !.log = Append(@, "HYBRID(modular) DONE")]
  /\ pc' = "done"
  /\ UNCHANGED input

NextHybrid ==
  SkipUnreadable \/ ReadSegment \/ Heuristic \/ Decide \/ Llm \/ Write \/ Summary

SpecHybrid == InitHybrid /\ [][NextHybrid]_vars

\* The readable files among the first k.
Readable(k) == {j \in 1..k : input.files[j].valid}

\* What holds of the counters in every state.
CountersAgree ==
  pc \in {"loop", "heuristic", "decide", "llm", "write", "done", "crashed"} =>
    /\ output.n_in = Cardinality(Readable(output.i))
    /\ output.n_ok = Len(output.nd)
    /\ output.n_llm_used <= output.n_llm
    /\ output.n_llm <= output.n_in
    /\ output.n_ok =
         IF pc \in {"heuristic", "decide", "llm", "write", "crashed"}
         THEN output.n_in - 1 ELSE output.n_in

\* C13: every stored segment goes from read, through the heuristic, either to
\* the model or straight to the write, whether or not --force-llm is set; the
\* run never stops inside a segment, and at the end as many results are
\* written as segments were read.
C13_OneResultPerSegment ==
  /\ pc # "crashed"
  /\ pc = "done" =>
       /\ output.n_ok = output.n_in
       /\ output.n_in = Cardinality(Readable(Len(input.files)))
       /\ Len(output.nd) = output.n_in

\* The heuristic result of the segment the loop is at, metadata merged in.
HeuristicOf(s) ==
  _merge_segment_meta(s, extract_structured_company(s.name, s.cui_found, s.regno_found)).obj

\* C14: when the model is asked and fails, run_llm returns None without
\* raising: the step ends at the write with the heuristic result (metadata
\* merged) still in comp, the failure logged, the request counted and the
\* used-LLM count as it was; and the write puts comp in the aggregate file.
C14_LlmFailureFallsBack ==
  [][/\ (pc = "llm" /\ pc' # "llm" /\ IsNull(output'.llm_comp)) =>
          /\ pc' = "write"
          /\ output'.exc = None
          /\ output.comp = HeuristicOf(seg)
          /\ output'.comp = output.comp
          /\ output'.n_llm = output.n_llm + 1
          /\ output'.n_llm_used = output.n_llm_used
          /\ output'.log = Append(output.log, "LLM extraction failed")
     /\ (pc = "write" /\ pc' # "write") =>
          /\ pc' = "loop"
          /\ output'.nd = Append(output.nd, output.comp)
          /\ output'.n_ok = output.n_ok + 1]_vars

\* One segment named BETA S.A., the model asked once and failing: the
\* heuristic result is in the aggregate file and no LLM result was used.
C14_Witness ==
  /\ pc = "done"
  /\ input.force_llm
  /\ output.n_llm = 1
  /\ output.n_llm_used = 0
  /\ IsNull(output.llm_comp)
  /\ output.log = <<"LLM extraction failed", "HYBRID(modular) DONE">>
  /\ Len(output.nd) = 1
  /\ output.nd[1].name = "BETA S.A."
  /\ output.nd[1].mainInfo.cui = "RO456"
  /\ output.nd[1].legalForm = "SRL"

\* C15: when the model is asked and gives a record, whatever the record
\* (mainInfo null, fields empty), the merge does not raise, and the result
\* to be written is that record: its own name and type, its own populated
\* tax id and registration number, the segment's where it had none.
C15_LlmResultReplaces ==
  /\ output.exc # AttributeError
  /\ (pc = "write" /\ ~IsNull(output.llm_comp)) =>
       /\ output.comp.name = output.llm_comp.name
       /\ output.comp.type = output.llm_comp.type
       /\ ~IsNull(output.llm_comp.mainInfo) =>
            /\ ~IsNull(output.comp.mainInfo)
            /\ output.comp.mainInfo.cui =
                 IF Truthy(output.llm_comp.mainInfo.cui) THEN output.llm_comp.mainInfo.cui
                 ELSE IF Truthy(seg.meta.cui) THEN normalize_cui(seg.meta.cui)
                 ELSE output.llm_comp.mainInfo.cui
            /\ output.comp.mainInfo.registrationNumber =
                 IF Truthy(output.llm_comp.mainInfo.registrationNumber)
                 THEN output.llm_comp.mainInfo.registrationNumber
                 ELSE seg.meta.reg_number
       /\ IsNull(output.llm_comp.mainInfo) =>
            ~Truthy(seg.meta.cui) /\ ~Truthy(seg.meta.reg_number)

\* What does hold: a record whose mainInfo is a dict replaces the heuristic
\* result, and the merge raises only on a null mainInfo.
LlmResultReplacesUnlessNull ==
  /\ output.exc = AttributeError =>
       pc = "crashed" /\ IsNull(output.llm_comp.mainInfo) /\ Truthy(seg.meta.cui)
  /\ (pc = "write" /\ ~IsNull(output.llm_comp)) =>
       /\ output.comp.name = output.llm_comp.name
       /\ output.comp.legalForm = "SRL"
       /\ IsNull(output.llm_comp.mainInfo) = IsNull(output.comp.mainInfo)

(***************************************************************************)
(* Bulletin number and year: src/ilegis_to_json_parser.py, lines 82-152,   *)
(* 193-250 and 345-426.  A dump is a sequence of lines as above.           *)
(***************************************************************************)
\* The text of a line as the patterns NUMAR_RE and AN_RE read it.
LineText(l) ==
  CASE l.t = "key" -> "[" \o l.k \o "] =>" \o (IF l.v = "" THEN "" ELSE " " \o l.v)
    [] l.t = "keyesc" -> "[" \o l.k \o "] =&gt; " \o l.v
    [] OTHER -> l.v

\* ([^\s\]]+) at the start of s: the characters up to the first white space
\* or "]"; "" when there is none, and then the pattern does not match here.
FirstToken(s) ==
  LET stops == {i \in 1..Len(s) : SubSeq(s, i, i) \in Spaces \cup {"]"}}
  IN IF stops = {} THEN s ELSE SubSeq(s, 1, Min(stops) - 1)

\* What \s*([^\s\]]+) captures after the arrow of the key line i of lines:
\* the first token of the rest of the line, or, the rest being empty, of the
\* next line that is not blank.
CaptureAfter(lines, i) ==
  IF lines[i].v # "" THEN FirstToken(lines[i].v)
  ELSE LET later == {j \in (i + 1)..Len(lines) : lines[j].t # "blank"}
       IN IF later = {} THEN "" ELSE FirstToken(LineText(lines[Min(later)]))

\* re.compile(r"\[<key>\]\s*=>\s*([^\s\]]+)").search(text): group(1) of the
\* leftmost match, None without a match.
search_key(lines, key) ==
  LET hits == {i \in 1..Len(lines) :
                 lines[i].t = "key" /\ lines[i].k = key /\ CaptureAfter(lines, i) # ""}
  IN IF hits = {} THEN None ELSE CaptureAfter(lines, Min(hits))

_find_numar_an_from_text(text) ==
  [numar |-> search_key(text, "numar"), an |-> search_key(text, "an")]

\* "\n".join(vals).strip() of a parsed scalar, as a string.
RECURSIVE JoinLines(_)
JoinLines(ls) ==
  IF ls = <<>> THEN ""
  ELSE IF Len(ls) = 1 THEN LineText(ls[1])
  ELSE LineText(ls[1]) \o "\n" \o JoinLines(Tail(ls))

\* str(node): the string itself, or the display of a dict or a list.
RECURSIVE str(_), repr_items(_, _)
repr_items(kv, keyed) ==
  IF kv = <<>> THEN ""
  ELSE (IF keyed THEN "'" \o kv[1][1] \o "': " ELSE "")
         \o (IF kv[1][2].tag = "S" THEN "'" \o str(kv[1][2]) \o "'" ELSE str(kv[1][2]))
         \o (IF Len(kv) > 1 THEN ", " ELSE "") \o repr_items(Tail(kv), keyed)
str(node) ==
  CASE node.tag = "S" -> JoinLines(node.s)
    [] node.tag = "M" -> "{" \o repr_items(node.kv, TRUE) \o "}"
    [] node.tag = "L" -> "[" \o repr_items(node.kv, FALSE) \o "]"

\* "numar" in node and node["numar"] is not None, for a dict node.
HasKey(node, key) == node.tag = "M" /\ \E i \in 1..Len(node.kv) : node.kv[i][1] = key
Lookup(node, key) == node.kv[CHOOSE i \in 1..Len(node.kv) : node.kv[i][1] = key][2]

\* walk(node) with the two nonlocal variables as acc; walk_values is the loop
\* over the values of a dict or the elements of a list, from the i-th on.
RECURSIVE walk(_, _), walk_values(_, _, _)
walk(node, acc) ==
  IF node.tag = "M"
  THEN LET a1 == IF acc.numar = None /\ HasKey(node, "numar")
                 THEN [acc EXCEPT !.numar = strip(str(Lookup(node, "numar")))] ELSE acc
           a2 == IF a1.an = None /\ HasKey(node, "an")
                 THEN [a1 EXCEPT !.an = strip(str(Lookup(node, "an")))] ELSE a1
       IN walk_values(node, 1, a2)
  ELSE IF node.tag = "L" THEN walk_values(node, 1, acc)
  ELSE acc
walk_values(node, i, acc) ==
  IF i > Len(node.kv) \/ (acc.numar # None /\ acc.an # None) THEN acc
  ELSE walk_values(node, i + 1, walk(node.kv[i][2], acc))

_find_numar_an_from_obj(obj) == walk(obj, [numar |-> None, an |-> None])

\* A page-level form input: <input id=... name=... value=...>, an absent
\* attribute being None.
Input(id, name, value) == [id |-> id, name |-> name, value |-> value]

\* soup.select_one(sel) for the four selectors of a key: the first input, in
\* document order, that the selector matches; <<>> without one.
select_one(inputs, sel, key) ==
  LET ok(e) == CASE sel = "id" -> e.id = key
                 [] sel = "name" -> e.name = key
                 [] sel = "id*" -> e.id # None /\ contains(e.id, key)
                 [] sel = "name*" -> e.name # None /\ contains(e.name, key)
      found == SelectSeq(inputs, ok)
  IN IF found = <<>> THEN <<>> ELSE <<found[1]>>

\* pick(selectors), from the i-th selector on.
RECURSIVE pick(_, _, _)
pick(inputs, key, i) ==
  IF i > 4 THEN None
  ELSE LET el == select_one(inputs, <<"id", "name", "id*", "name*">>[i], key)
       IN IF el # <<>> /\ el[1].value # None /\ strip(el[1].value) # ""
          THEN strip(el[1].value)
          ELSE pick(inputs, key, i + 1)

_find_numar_an_in_dom(inputs) == [numar |-> pick(inputs, "numar", 1), an |-> pick(inputs, "an", 1)]

\* The empty string, as a sequence of lines.
EmptyText == <<BlankLine>>

\* x or y
Or(x, y) == IF Truthy(x) THEN x ELSE y

\* "Array" in text
HasArrayWord(text) ==
  \E i \in 1..Len(text) : contains(LineText(text[i]), "Array")

\* Lines 212-224 of extract_from_col_lg_12 with the page values of line 198:
\* text is the text of the block's <pre>, the empty string when it is missing.
resolve_numar_an(text, page) ==
  LET parsed == parse_php_array(text)
      tree == IF text # EmptyText /\ HasArrayWord(text) /\ ~parsed.err
              THEN _find_numar_an_from_obj(parsed.val)
              ELSE [numar |-> None, an |-> None]
      rx == _find_numar_an_from_text(text)
      both == IF tree.numar = None \/ tree.an = None
              THEN [numar |-> Or(tree.numar, rx.numar), an |-> Or(tree.an, rx.an)]
              ELSE tree
  IN [numar |-> IF both.numar = None THEN page.numar ELSE both.numar,
      an |-> IF both.an = None THEN page.an ELSE both.an]

\* The numar and an of extract_from_modals for one modal: pres are the texts
\* of its <pre> elements in document order.  modal_pres is the loop over
\* them from the i-th on; acc holds modal_numar, modal_an, items_out and
\* used_pre.  An item keeps its slice of the dump in place of the fields
\* _parse_articole_item reads out of it.
RECURSIVE modal_pres(_, _, _, _, _)
modal_pres(pres, i, idx, page, acc) ==
  IF i > Len(pres) THEN acc
  ELSE LET raw == pres[i]
           block == _get_articole_block(raw)
           parsed == parse_php_array(raw)
           found == IF parsed.err THEN [numar |-> None, an |-> None]
                    ELSE _find_numar_an_from_obj(parsed.val)
           modal_numar == IF Truthy(found.numar) THEN Or(acc.numar, found.numar) ELSE acc.numar
           modal_an == IF Truthy(found.an) THEN Or(acc.an, found.an) ELSE acc.an
           items == _split_top_level_articole_items(block.text)
       IN IF raw = EmptyText \/ block.none \/ block.text = EmptyText
          THEN modal_pres(pres, i + 1, idx, page, acc)
          ELSE modal_pres(pres, i + 1, idx, page,
                 [numar |-> modal_numar, an |-> modal_an, used_pre |-> TRUE,
                  items |-> acc.items \o
                    [k \in 1..Len(items) |->
                       [type |-> "modal_article", modal_index |-> idx,
                        numar |-> Or(modal_numar, page.numar),
                        an |-> Or(modal_an, page.an),
                        seg |-> items[k], pre |-> i]]])

\* The dict extract_from_modals yields for the modal idx, with yielded FALSE
\* when it yields none; visible are the names the fallback finds in the
\* modal's visible text.
extract_modal(modal, idx, page) ==
  LET acc == modal_pres(modal.pres, 1, idx, page,
                        [numar |-> None, an |-> None, used_pre |-> FALSE, items |-> <<>>])
      companies == IF acc.used_pre THEN <<>> ELSE modal.visible
  IN [yielded |-> companies # <<>> \/ acc.items # <<>>,
      type |-> "modal", modal_index |-> idx,
      numar |-> Or(acc.numar, page.numar), an |-> Or(acc.an, page.an),
      items |-> acc.items]

(***************************************************************************)
(* Specification SpecResolve: numar and an of an article block and of the  *)
(* items of a modal                                                        *)
(***************************************************************************)
\* Most <pre> elements in a drawn modal.
MaxPres == 2

Numar == KeyLine("numar", "1017")
An == KeyLine("an", "2009")

\* What stands in a dump before its list of articles.
Prefixes ==
  { <<>>, <<Numar>>, <<An>>, <<Numar, An>>,
    <<KeyLine("x", ""), Numar, An>>,
    <<KeyLine("numar", ""), An>>,
    Group("a", <<KeyLine("numar", "5")>>) \o <<Numar>>,
    Group("numar", <<KeyLine("0", "7")>>),
    <<EscKeyLine("numar", "1017"), An>> }

\* A dump with one article in its list, closed or cut after a key.
ModalDump(prefix, closed) ==
  <<ArrayLine, OpenLine>> \o prefix
    \o <<KeyLine("articole", "Array"), OpenLine>> \o Group("0", <<KeyLine("id", "5")>>)
    \o (IF closed THEN <<CloseLine, BlankLine, CloseLine>> ELSE <<KeyLine("z", "")>>)

ModalDumps == {ModalDump(p, c) : p \in Prefixes, c \in BOOLEAN}

\* The text of an article's <pre>: a dump, key lines alone, or nothing.
ArticleTexts ==
  ModalDumps \cup {EmptyText, <<Numar>>, <<Numar, An>>, <<KeyLine("numar", "")>>,
                   <<TextLine("Array"), Numar>>}

PageInputs ==
  { <<>>,
    <<Input("numar", "numar", "77"), Input("an", "an", "1999")>>,
    <<Input("numar", None, " "), Input(None, "nr_numar", "78")>>,
    <<Input("plan", None, "3")>> }

InitResolve ==
  /\ pc = "ready"
  /\ input \in {[kind |-> "article", text |-> t, inputs |-> i] :
                  t \in ArticleTexts, i \in PageInputs}
          \cup {[kind |-> "modal", pres |-> ps, inputs |-> i] :
                  ps \in SeqsUpTo(ModalDumps \cup {EmptyText}, MaxPres) \ {<<>>},
                  i \in PageInputs}
  /\ output = None

\* Lines 198 and 212-224 for one article block.
ResolveArticle ==
  /\ pc = "ready"
  /\ input.kind = "article"
  /\ output' = <<resolve_numar_an(input.text, _find_numar_an_in_dom(input.inputs))>>
  /\ pc' = "resolved"
  /\ UNCHANGED input

\* Lines 351-408 for one modal: the items it gives.
ResolveModal ==
  /\ pc = "ready"
  /\ input.kind = "modal"
  /\ output' = extract_modal([pres |-> input.pres, visible |-> <<>>], 1,
                             _find_numar_an_in_dom(input.inputs)).items
  /\ pc' = "resolved"
  /\ UNCHANGED input

NextResolve == ResolveArticle \/ ResolveModal

SpecResolve == InitResolve /\ [][NextResolve]_vars

\* The first of the three sources that yields something.
Priority(tree, rx, page) == IF tree # None THEN tree ELSE IF rx # None THEN rx ELSE page

\* What the parsed tree of a dump yields: nothing when the dump does not parse.
TreeOf(text) ==
  LET parsed == parse_php_array(text)
  IN IF parsed.err THEN [numar |-> None, an |-> None] ELSE _find_numar_an_from_obj(parsed.val)

\* numar and an as the priority order gives them for a unit whose dump is text.
Expected(text, inputs) ==
  LET tree == TreeOf(text)
      rx == _find_numar_an_from_text(text)
      page == _find_numar_an_in_dom(inputs)
  IN [numar |-> Priority(tree.numar, rx.numar, page.numar),
      an |-> Priority(tree.an, rx.an, page.an)]

\* C18: for an article block and for every item of a modal, numar and an are
\* each the value of the first source that yields one: the parsed tree of the
\* unit's dump, else the pattern scan of the dump's text, else the page's
\* form input.
C18_PriorityOrder ==
  pc = "resolved" =>
    IF input.kind = "article"
    THEN /\ output[1].numar = Expected(input.text, input.inputs).numar
         /\ output[1].an = Expected(input.text, input.inputs).an
    ELSE \A k \in 1..Len(output) :
           /\ output[k].numar = Expected(input.pres[output[k].pre], input.inputs).numar
           /\ output[k].an = Expected(input.pres[output[k].pre], input.inputs).an

\* What does hold: the order for article blocks.
ArticlePriorityOrder ==
  (pc = "resolved" /\ input.kind = "article") =>
    /\ output[1].numar = Expected(input.text, input.inputs).numar
    /\ output[1].an = Expected(input.text, input.inputs).an

(***************************************************************************)
(* Article blocks of a page: extract_from_col_lg_12,                       *)
(* src/ilegis_to_json_parser.py lines 193-252.                             *)
(*                                                                         *)
(* A page has its form inputs and its div.col-lg-12 containers in document *)
(* order; a container has its class list and its child divs, each a        *)
(* company header or an article block.  An element that may be missing is  *)
(* a sequence of length 0 or 1.                                            *)
(***************************************************************************)
\* <div class="col-lg-12 societateContainer">, a being its <a> if any.
Header(a) == [kind |-> "header", a |-> a, art_id |-> None, pre |-> <<>>]
\* <a href=...>text</a>, href None without the attribute.
Anchor(text, href) == [text |-> text, href |-> href]
\* <div id="articolNNN">, pre being the text of its <pre> if any.
Block(art_id, pre) == [kind |-> "block", a |-> <<>>, art_id |-> art_id, pre |-> pre]

\* The header block.find_previous_sibling gives on its first argument.
first_header(children, i) ==
  LET hs == {j \in 1..(i - 1) : children[j].kind = "header"}
  IN IF hs = {} THEN <<>> ELSE <<children[Min(hs)]>>

\* block.find_previous_sibling("div", class_="col-lg-12 societateContainer"):
\* the nearest header before child i.
find_previous_sibling(children, i) ==
  LET hs == {j \in 1..(i - 1) : children[j].kind = "header"}
  IN IF hs = {} THEN <<>> ELSE <<children[Max(hs)]>>

\* pre.get_text("\n", strip=True): the text without the blank lines at its two
\* ends, the empty text when nothing is left.
RECURSIVE get_text_strip(_)
get_text_strip(lines) ==
  IF lines = <<>> THEN EmptyText
  ELSE IF Head(lines) = BlankLine THEN get_text_strip(Tail(lines))
  ELSE IF lines[Len(lines)] = BlankLine THEN get_text_strip(SubSeq(lines, 1, Len(lines) - 1))
  ELSE lines

\* " ".join(col.get("class", []))
RECURSIVE join_classes(_)
join_classes(classes) ==
  IF classes = <<>> THEN ""
  ELSE IF Len(classes) = 1 THEN classes[1]
  ELSE classes[1] \o " " \o join_classes(Tail(classes))

\* re.search(r"listaarticole_(\d+)", s): group(1), None without a match.
bulletin_id_of(s) ==
  LET word == "listaarticole_"
      n == Len(word)
      hits == {p \in 1..(Len(s) - n) :
                 SubSeq(s, p, p + n - 1) = word /\ SubSeq(s, p + n, p + n) \in Digits}
  IN IF hits = {} THEN None
     ELSE LET p == Min(hits) + n
              ends == {e \in p..Len(s) : \A j \in p..e : SubSeq(s, j, j) \in Digits}
          IN SubSeq(s, p, Max(ends))

\* Lines 205-210: the text of the block's <pre>, "" without one.
pre_text(block) == IF block.pre # <<>> THEN get_text_strip(block.pre[1]) ELSE EmptyText

\* Lines 210-224: the text with the number and year resolved for it.
text_numar_an(text, page) == [text |-> text, na |-> resolve_numar_an(text, page)]

\* Lines 204-250 for a block, t being its text with number and year, header
\* the header found for it and parent_classes the joined classes of its
\* container: the record yielded, the warnings logged and the messages put
\* in file_errors.
yielded(block, t, header, parent_classes) ==
  LET art_id == block.art_id
      a == IF header # <<>> THEN header[1].a ELSE <<>>
      bulletin_id == bulletin_id_of(parent_classes)
  IN [rec |-> [type |-> "article",
               company |-> IF a # <<>> THEN strip(a[1].text) ELSE None,
               article_id |-> art_id,
               bulletin_id |-> bulletin_id,
               list_parent_classes |-> Or(parent_classes, None),
               collapse_id |-> "articol" \o art_id,
               source_href |-> IF a # <<>> THEN a[1].href ELSE None,
               text |-> t.text,
               numar |-> t.na.numar,
               an |-> t.na.an],
      file_errors |-> IF block.pre = <<>> THEN <<"Missing <pre> for articol" \o art_id>> ELSE <<>>,
      warnings |->
        (IF block.pre = <<>> THEN <<"Missing <pre> for articol" \o art_id>> ELSE <<>>)
        \o (IF header = <<>> THEN <<"Missing societateContainer for articol" \o art_id>> ELSE <<>>)
        \o (IF ~Truthy(bulletin_id)
            THEN <<"No bulletin_id (listaarticole_XXXX) found for articol" \o art_id>> ELSE <<>>)]

\* The body of the inner loop, lines 202-250, for child i of a container.
article_record(col, i, page) ==
  yielded(col.children[i], text_numar_an(pre_text(col.children[i]), page),
          find_previous_sibling(col.children, i), join_classes(col.classes))

\* The blocks of the page in the order of the two loops, as <<c, i>>: child i
\* of container c.
RECURSIVE blocks_from(_, _, _)
blocks_from(cols, c, i) ==
  IF c > Len(cols) THEN <<>>
  ELSE IF i > Len(cols[c].children) THEN blocks_from(cols, c + 1, 1)
  ELSE (IF cols[c].children[i].kind = "block" THEN <<(<<c, i>>)>> ELSE <<>>)
         \o blocks_from(cols, c, i + 1)

\* What the generator yields, in order, each with its warnings.
extract_from_col_lg_12(page) ==
  LET bs == blocks_from(page.cols, 1, 1)
      dom == _find_numar_an_in_dom(page.inputs)
  IN [k \in 1..Len(bs) |-> article_record(page.cols[bs[k][1]], bs[k][2], dom)]

(***************************************************************************)
(* Specification SpecArticles: extract_from_col_lg_12 on pages with and    *)
(* without headers, <pre> bodies and bulletin classes                      *)
(***************************************************************************)
\* Most child divs in a drawn container.
MaxChildren == 3

Children ==
  {Header(<<Anchor(" ALFA SRL ", "/firma/1")>>), Header(<<Anchor("BETA SA", None)>>),
   Header(<<>>),
   Block("5", <<ModalDump(<<Numar, An>>, TRUE)>>), Block("6", <<>>)}

Containers ==
  {[classes |-> cl, children |-> ch] :
     cl \in {<<"col-lg-12">>, <<"col-lg-12", "listaarticole_123">>},
     ch \in SeqsUpTo(Children, MaxChildren)}

LastContainers ==
  {[classes |-> <<"col-lg-12", "listaarticole_9x">>, children |-> <<Block("7", <<EmptyText>>), Block("9", <<<<BlankLine, KeyLine("numar", "3"), BlankLine>>>>)>>],
   [classes |-> <<"col-lg-12", "listaarticole_">>,
    children |-> <<Header(<<Anchor("GAMA SRL", "/firma/3")>>), Block("8", <<>>)>>]}

InitArticles ==
  /\ pc = "ready"
  /\ input \in {[inputs |-> <<Input("numar", "numar", "77")>>, cols |-> cs] :
                  cs \in {<<>>} \cup {<<c>> : c \in Containers}
                           \cup {<<c, d>> : c \in Containers, d \in LastContainers}}
  /\ output = None

ExtractArticles ==
  /\ pc = "ready"
  /\ output' = extract_from_col_lg_12(input)
  /\ pc' = "extracted"
  /\ UNCHANGED input

NextArticles == ExtractArticles

SpecArticles == InitArticles /\ [][NextArticles]_vars

\* The containers' blocks, in document order.
BlocksOf(page) == blocks_from(page.cols, 1, 1)

grab_scalar(item, name) ==
  LET hits == {i \in 1..Len(item) : item[i].t = "key" /\ item[i].k = name}
      i == Min(hits)
      later == {j \in (i + 1)..Len(item) : item[j].t # "blank"}
      next == LineText(item[Min(later)])
  IN IF hits = {} THEN None
     ELSE IF item[i].v # "" THEN strip(item[i].v)
     ELSE IF later = {} \/ startswith(next, "Array") THEN ""
     ELSE strip(next)

\* The id, company and buletinid of the dict _parse_articole_item returns.
_parse_articole_item(item) ==
  [id |-> grab_scalar(item, "id"),
   company |-> strip(Or(Or(grab_scalar(item, "numesocietate"),
                           grab_scalar(item, "numesocietateinit")), "")),
   buletinid |-> Or(grab_scalar(item, "buletinid"), "")]

\* The dicts extract_from_modals yields, in the order of the modals.
extract_from_modals(page) ==
  LET dom == _find_numar_an_in_dom(page.inputs)
  IN SelectSeq([idx \in 1..Len(page.modals) |-> extract_modal(page.modals[idx], idx, dom)],
               LAMBDA m : m.yielded)

\* s.lower().replace(" ", "")
slug_of(s) ==
  LET cs == SelectSeq(casefold(s), LAMBDA c : c # " ")
  IN StrOf(cs, 1, Len(cs))

\* The name of the file of a record: f"{slug}.{article_id}.{bulletin_id}.json".
out_name(company, article_id, bulletin_id) ==
  slug_of(Or(company, "unknown")) \o "." \o article_id \o "." \o bulletin_id \o ".json"

\* out.write_text raises (FileNotFoundError) for a name that leads into a
\* directory that is not there.
write_raises(name) == contains(name, "/")

\* The first loop of process_file, lines 467-490, over the records recs: for
\* each record the messages the generator put in per_file_errors and logged,
\* then the write or its error.  Gives created_articles, the entries added
\* to per_file_errors, the log lines and the names written.
article_step(item) ==
  CHOOSE r \in {[ok |-> ~write_raises(out),
                 errors |-> item.file_errors \o (IF write_raises(out) THEN <<msg>> ELSE <<>>),
                 log |-> [j \in 1..Len(item.warnings) |-> <<"warning", item.warnings[j]>>]
                           \o (IF write_raises(out) THEN <<(<<"error", msg>>)>>
                               ELSE <<(<<"info", "[article] " \o out>>)>>),
                 written |-> IF write_raises(out) THEN <<>>
                             ELSE <<[kind |-> "article", name |-> out]>>] :
                  out \in {out_name(item.rec.company, item.rec.article_id, item.rec.bulletin_id)},
                  msg \in {"write_article_error(articol" \o item.rec.article_id \o ")"}} : TRUE

write_articles(recs) ==
  CHOOSE r \in {[count |-> Cardinality({k \in 1..Len(steps) : steps[k].ok}),
                 errors |-> Flatten([k \in 1..Len(steps) |-> steps[k].errors]),
                 log |-> Flatten([k \in 1..Len(steps) |-> steps[k].log]),
                 written |-> Flatten([k \in 1..Len(steps) |-> steps[k].written])] :
                  steps \in {[k \in 1..Len(recs) |-> article_step(recs[k])]}} : TRUE

\* The loop over the items of one modal, lines 497-517: the names written,
\* the items up to the first whose write raises, and whether one raised.
write_items(items) ==
  CHOOSE r \in {[raised |-> \E k \in 1..Len(names) : write_raises(names[k]),
                 written |-> [k \in 1..Cardinality({k \in 1..Len(names) :
                                   \A j \in 1..k : ~write_raises(names[j])}) |->
                                [kind |-> "modal_article", name |-> names[k]]]] :
                  names \in {[k \in 1..Len(items) |->
                                CHOOSE n \in {out_name(rec.company, rec.id, rec.buletinid) :
                                                rec \in {_parse_articole_item(items[k].seg)}} : TRUE]}} : TRUE

\* One turn of the second loop of process_file, lines 493-522, for the dict
\* modal.
modal_step(modal) ==
  CHOOSE r \in {[written |-> w.written,
                 errors |-> IF w.raised THEN <<msg>> ELSE <<>>,
                 log |-> [k \in 1..Len(w.written) |-> <<"info", "[modal_article] " \o w.written[k].name>>]
                           \o (IF w.raised THEN <<(<<"error", msg>>)>> ELSE <<>>)] :
                  w \in {write_items(modal.items)},
                  msg \in {"write_modal_error(modal#" \o ToString(modal.modal_index) \o ")"}} : TRUE

\* The second loop of process_file, lines 493-522, over the dicts ms: gives
\* created_modals, the entries added to per_file_errors, the log lines and
\* the names written.
write_modals(ms) ==
  CHOOSE r \in {[count |-> Len(Flatten([k \in 1..Len(steps) |-> steps[k].written])),
                 errors |-> Flatten([k \in 1..Len(steps) |-> steps[k].errors]),
                 log |-> Flatten([k \in 1..Len(steps) |-> steps[k].log]),
                 written |-> Flatten([k \in 1..Len(steps) |-> steps[k].written])] :
                  steps \in {[k \in 1..Len(ms) |-> modal_step(ms[k])]}} : TRUE

\* The dict process_file returns at lines 524-530, a and m being what its two
\* loops gave; modal_articles is created_modal_articles, which no line
\* changes after line 458.
returned(name, a, m) ==
  [file |-> name, articles |-> a.count, modals |-> m.count, modal_articles |-> 0,
   errors |-> a.errors \o m.errors]

\* Lines 460-464 without the try: the failed read raises.
read_unguarded(doc) == IF doc.readable THEN "soup" ELSE "raised"

\* Lines 460-464 of process_file: the page is read and parsed, or the
\* exception of the read is caught.
try_read(doc) == IF doc.readable THEN "soup" ELSE "caught"

\* The dict process_file returns at line 464.
read_error(name) ==
  [file |-> name, articles |-> 0, modals |-> 0, modal_articles |-> 0, errors |-> <<"read_error">>]

\* The sums of lines 569-572 over the results.
RECURSIVE sum(_)
sum(ns) == IF ns = <<>> THEN 0 ELSE Head(ns) + sum(Tail(ns))

\* re.sub(r'[^A-Za-z0-9\-_\.\s]', '', name).strip().replace(' ', '_')
safe_name(name) ==
  LET kept == SelectSeq(Chars(name),
                LAMBDA c : c \in CharSet("ABCDEFGHIJKLMNOPQRSTUVWXYZ") \cup AsciiLower \cup Digits
                                  \cup {"-", "_", "."} \cup Spaces)
      s == strip(StrOf(kept, 1, Len(kept)))
  IN StrOf([i \in 1..Len(s) |-> IF SubSeq(s, i, i) = " " THEN "_" ELSE SubSeq(s, i, i)], 1, Len(s))

\* _bucket(legal_type)
_bucket(lt) ==
  IF lt \in {"SRL", "SA", "PFA", "SNC"} THEN lt ELSE "OTHER"

\* The loop over the entries of one file in main of the leg5 extractor, lines
\* 217-225, from entry idx on: it ends at the first write that raises.
\* An entry's write_ok tells whether the file system takes its file.
RECURSIVE write_entries(_, _, _)
write_entries(entries, idx, st) ==
  IF idx > Len(entries) THEN [st |-> st, raised |-> FALSE]
  ELSE LET entry == entries[idx]
           fname == _bucket(entry.legal_type) \o "/" \o safe_name(Or(entry.company_name, "entry"))
                      \o "__00" \o ToString(idx) \o ".json"
       IN IF ~entry.write_ok THEN [st |-> st, raised |-> TRUE]
          ELSE write_entries(entries, idx + 1,
                 [st EXCEPT !.total = @ + 1, !.written = @ \o <<fname>>])

(***************************************************************************)
(* Specification SpecBatch: a run of either driver over a folder           *)
(***************************************************************************)
\* Most files in a drawn folder.
MaxFiles == 2

\* A print_r dump of a modal with the given items under [articole].
ItemsDump(items) ==
  <<ArrayLine, OpenLine, KeyLine("numar", "1017"), KeyLine("an", "2009"),
    KeyLine("articole", "Array"), OpenLine>>
    \o Flatten([k \in 1..Len(items) |-> Group(ToString(k - 1), items[k])])
    \o <<CloseLine, BlankLine, CloseLine>>

Item(id, company) ==
  <<KeyLine("id", id), KeyLine("numesocietate", company), KeyLine("buletinid", "77")>>

PageOf(children, pres) ==
  [inputs |-> <<>>,
   cols |-> IF children = <<>> THEN <<>>
            ELSE <<[classes |-> <<"col-lg-12", "listaarticole_123">>, children |-> children]>>,
   modals |-> IF pres = <<>> THEN <<>> ELSE <<[pres |-> pres, visible |-> <<>>]>>]

ArticleDump == <<ModalDump(<<Numar, An>>, TRUE)>>

IlegisDocs ==
  {[name |-> "dir.html", readable |-> FALSE, page |-> PageOf(<<>>, <<>>)],
   [name |-> "one.html", readable |-> TRUE,
    page |-> PageOf(<<Header(<<Anchor("ALFA SRL", "/firma/1")>>), Block("5", ArticleDump)>>, <<>>)],
   [name |-> "two.html", readable |-> TRUE,
    page |-> PageOf(<<Header(<<Anchor("A/B SRL", "/firma/2")>>), Block("5", ArticleDump),
                      Header(<<Anchor("BETA SA", "/firma/3")>>), Block("6", <<>>)>>, <<>>)],
   [name |-> "modal.html", readable |-> TRUE,
    page |-> PageOf(<<>>, <<ItemsDump(<<Item("1", "A/B SRL"), Item("2", "BETA SA")>>)>>)],
   [name |-> "both.html", readable |-> TRUE,
    page |-> PageOf(<<Block("7", ArticleDump)>>,
                    <<ItemsDump(<<Item("1", "ALFA SRL"), Item("2", "BETA SA")>>)>>)]}

Entry(name, lt, write_ok) ==
  [company_name |-> name, legal_type |-> lt, write_ok |-> write_ok]

Leg5Docs ==
  {[name |-> "dir.html", readable |-> FALSE, entries |-> <<>>],
   [name |-> "none.html", readable |-> TRUE, entries |-> <<>>],
   [name |-> "one.html", readable |-> TRUE, entries |-> <<Entry("ALFA S.R.L.", "SRL", TRUE)>>],
   [name |-> "two.html", readable |-> TRUE,
    entries |-> <<Entry("ALFA S.R.L.", "SRL", FALSE), Entry("Beta & Co SA", "SA", TRUE)>>],
   [name |-> "last.html", readable |-> TRUE,
    entries |-> <<Entry(None, None, TRUE), Entry("GAMA PFA", "PFA", FALSE)>>]}

InitBatch ==
  /\ pc = "run"
  /\ input \in [driver : {"ilegis"}, files : SeqsUpTo(IlegisDocs, MaxFiles)]
                 \cup [driver : {"leg5"}, files : SeqsUpTo(Leg5Docs, MaxFiles)]
  /\ output = [i |-> 1, total_files |-> Len(input.files), processed |-> 0, files |-> <<>>,
               loop |-> <<>>, written |-> <<>>, log |-> <<>>, total |-> 0, report |-> <<>>]

\* Lines 565-567 of ilegis_to_json_parser.main, result being what
\* process_file returned after writing the files named in written.
appended(out, result, written, log) ==
  [out EXCEPT !.i = @ + 1, !.processed = @ + 1, !.loop = <<>>,
              !.files = @ \o <<result>>,
              !.written = @ \o <<written>>,
              !.log = @ \o log]

\* Line 564 of ilegis_to_json_parser.main and lines 455-464 of process_file:
\* the read of the next file; an exception that leaves process_file leaves
\* main.
ReadFile ==
  /\ pc = "run" /\ input.driver = "ilegis" /\ output.i <= Len(input.files)
  /\ \E doc \in {input.files[output.i]} :
       \E soup \in {try_read(doc)} :
         /\ pc' = CASE soup = "soup" -> "articles"
                    [] soup = "caught" -> "run"
                    [] soup = "raised" -> "aborted"
         /\ output' =
              CASE soup = "soup" ->
                     [output EXCEPT !.log = @ \o <<(<<"info", "Processing">>)>>]
                [] soup = "caught" ->
                     appended(output, read_error(doc.name), <<>>,
                              <<(<<"info", "Processing">>),
                                (<<"error", "Failed to read/parse HTML: " \o doc.name>>)>>)
                [] soup = "raised" -> output
  /\ UNCHANGED input

\* Lines 467-490 of process_file: the loop over the article records.
WriteArticles ==
  /\ pc = "articles"
  /\ \E a \in {write_articles(extract_from_col_lg_12(input.files[output.i].page))} :
       output' = [output EXCEPT !.loop = <<a>>]
  /\ pc' = "modals"
  /\ UNCHANGED input

\* Lines 493-530 of process_file, the loop over the modals and the return,
\* and lines 565-567 of main.
WriteModals ==
  /\ pc = "modals"
  /\ \E m \in {write_modals(extract_from_modals(input.files[output.i].page))} :
       \E a \in {output.loop[1]} :
         output' = appended(output, returned(input.files[output.i].name, a, m),
                            a.written \o m.written, a.log \o m.log)
  /\ pc' = "run"
  /\ UNCHANGED input

\* Lines 569-575 of ilegis_to_json_parser.main: the totals and the report.
Report ==
  /\ pc = "run" /\ input.driver = "ilegis" /\ output.i > Len(input.files)
  /\ LET fs == output.files
     IN output' = [output EXCEPT !.report =
          <<[total_files |-> output.total_files, processed |-> output.processed, files |-> fs,
             total_articles |-> sum([k \in 1..Len(fs) |-> fs[k].articles]),
             total_modals |-> sum([k \in 1..Len(fs) |-> fs[k].modals]),
             total_modal_articles |-> sum([k \in 1..Len(fs) |-> fs[k].modal_articles]),
             total_errors |-> sum([k \in 1..Len(fs) |-> Len(fs[k].errors)])]>>]
  /\ pc' = "done"
  /\ UNCHANGED input

\* One turn of the loop of lines 213-227 of the leg5 extractor's main.
Leg5File ==
  /\ pc = "run" /\ input.driver = "leg5" /\ output.i <= Len(input.files)
  /\ LET html_file == input.files[output.i]
         r == write_entries(html_file.entries, 1, [total |-> output.total, written |-> <<>>])
     IN output' =
          IF ~html_file.readable
          THEN [output EXCEPT !.i = @ + 1, !.written = @ \o <<(<<>>)>>,
                              !.log = @ \o <<(<<"error", "Error on " \o html_file.name>>)>>]
          ELSE [output EXCEPT !.i = @ + 1, !.total = r.st.total,
                              !.written = @ \o <<r.st.written>>,
                              !.log = @ \o <<(<<"info", html_file.name \o ": "
                                               \o ToString(Len(html_file.entries)) \o " segment(s)">>)>>
                                         \o (IF r.raised
                                             THEN <<(<<"error", "Error on " \o html_file.name>>)>>
                                             ELSE <<>>)]
  /\ pc' = "run"
  /\ UNCHANGED input

\* Lines 229-230 of the leg5 extractor's main.
Leg5Done ==
  /\ pc = "run" /\ input.driver = "leg5" /\ output.i > Len(input.files)
  /\ pc' = "done"
  /\ UNCHANGED <<input, output>>

NextBatch == ReadFile \/ WriteArticles \/ WriteModals \/ Report \/ Leg5File \/ Leg5Done

SpecBatch == InitBatch /\ [][NextBatch]_vars

\* Whether line kind/text is in the log.
Logged(kind, text) == \E j \in 1..Len(output.log) : output.log[j] = <<kind, text>>

\* C16: a file that cannot be read never ends the run.  In the iLegis driver
\* the run ends with processed = total_files = the number of input files and
\* one result per file in order, the result of an unreadable file having zero
\* counts and the one error read_error, with the failure logged; in the leg5
\* driver the run ends having logged the error of each unreadable file and
\* the segment count of every readable one.
C16_FatalDocumentSkipped ==
  /\ pc # "aborted"
  /\ pc = "done" =>
       \A k \in 1..Len(input.files) :
         LET doc == input.files[k]
         IN IF input.driver = "ilegis"
            THEN /\ output.report[1].processed = Len(input.files)
                 /\ output.report[1].total_files = Len(input.files)
                 /\ Len(output.report[1].files) = Len(input.files)
                 /\ output.report[1].files[k].file = doc.name
                 /\ ~doc.readable =>
                      /\ output.report[1].files[k] =
                           [file |-> doc.name, articles |-> 0, modals |-> 0, modal_articles |-> 0,
                            errors |-> <<"read_error">>]
                      /\ Logged("error", "Failed to read/parse HTML: " \o doc.name)
                      /\ output.written[k] = <<>>
            ELSE /\ ~doc.readable => Logged("error", "Error on " \o doc.name) /\ output.written[k] = <<>>
                 /\ doc.readable =>
                      Logged("info", doc.name \o ": " \o ToString(Len(doc.entries)) \o " segment(s)")

\* An unreadable file first and a readable one after it, whose record is
\* written, in a finished run of the iLegis driver.
C16_Witness ==
  /\ pc = "done" /\ input.driver = "ilegis" /\ Len(input.files) = 2
  /\ ~input.files[1].readable /\ input.files[2].name = "one.html"
  /\ output.report[1].processed = 2
  /\ output.report[1].files[1].errors = <<"read_error">>
  /\ output.written[2] = <<[kind |-> "article", name |-> "alfasrl.5.123.json"]>>

\* The names of the files of the items of a document whose write does not
\* raise, in the order of the two loops (of the one loop, in the leg5 driver).
WritableArticles(doc) ==
  LET recs == extract_from_col_lg_12(doc.page)
      names == [k \in 1..Len(recs) |->
                  out_name(recs[k].rec.company, recs[k].rec.article_id, recs[k].rec.bulletin_id)]
  IN SelectSeq(names, LAMBDA n : ~write_raises(n))

WritableModalItems(doc) ==
  LET ms == extract_from_modals(doc.page)
      items == Flatten([k \in 1..Len(ms) |-> ms[k].items])
      names == [k \in 1..Len(items) |->
                  LET rec == _parse_articole_item(items[k].seg)
                  IN out_name(rec.company, rec.id, rec.buletinid)]
  IN SelectSeq(names, LAMBDA n : ~write_raises(n))

WritableEntries(doc) == SelectSeq(doc.entries, LAMBDA e : e.write_ok)

FileNames(written) == [k \in 1..Len(written) |-> written[k].name]

OfKind(written, kind) == SelectSeq(written, LAMBDA w : w.kind = kind)

\* C17: a write that fails stops its own item only.  After a run every item
\* of a readable document whose own write does not fail is written (the
\* articles, the items of each modal and the entries of a leg5 file, those
\* after a failed one included), and in the iLegis driver the document's
\* error list has an entry for each failure.
C17_ItemFailureIsolated ==
  pc = "done" =>
    \A k \in 1..Len(input.files) :
      LET doc == input.files[k]
      IN doc.readable =>
           IF input.driver = "ilegis"
           THEN /\ FileNames(output.written[k]) = WritableArticles(doc) \o WritableModalItems(doc)
                /\ Len(output.report[1].files[k].errors) >=
                     Len(extract_from_col_lg_12(doc.page)) - Len(WritableArticles(doc))
           ELSE Len(output.written[k]) = Len(WritableEntries(doc))

\* The same for the article records of the iLegis driver alone: each is
\* written unless its own write fails, and then the error list names it.
ArticleFailureIsolated ==
  (pc = "done" /\ input.driver = "ilegis") =>
    \A k \in 1..Len(input.files) :
      LET doc == input.files[k]
          recs == extract_from_col_lg_12(doc.page)
          errors == output.report[1].files[k].errors
      IN doc.readable =>
           /\ FileNames(OfKind(output.written[k], "article")) = WritableArticles(doc)
           /\ \A j \in 1..Len(recs) :
                write_raises(out_name(recs[j].rec.company, recs[j].rec.article_id, recs[j].rec.bulletin_id))
                  => \E e \in 1..Len(errors) :
                       errors[e] = "write_article_error(articol" \o recs[j].rec.article_id \o ")"

\* C20: the counts of the report are the numbers of records written.  In
\* each result articles is the number of article records written for the
\* file and modal_articles the number of modal-article records written for
\* it; total_articles, total_modals and total_modal_articles are the sums of
\* the results' counts and total_errors the sum of the lengths of their error
\* lists.
C20_CountsMatchWritten ==
  (pc = "done" /\ input.driver = "ilegis") =>
    LET report == output.report[1]
        fs == report.files
    IN /\ \A k \in 1..Len(fs) :
            /\ fs[k].articles = Len(OfKind(output.written[k], "article"))
            /\ fs[k].modal_articles = Len(OfKind(output.written[k], "modal_article"))
       /\ report.total_articles = sum([k \in 1..Len(fs) |-> fs[k].articles])
       /\ report.total_modals = sum([k \in 1..Len(fs) |-> fs[k].modals])
       /\ report.total_modal_articles = sum([k \in 1..Len(fs) |-> fs[k].modal_articles])
       /\ report.total_errors = sum([k \in 1..Len(fs) |-> Len(fs[k].errors)])

\* The same with the modal-article records counted where the code counts
\* them, under modals.
CountsMatchWrittenUnderModals ==
  (pc = "done" /\ input.driver = "ilegis") =>
    LET report == output.report[1]
        fs == report.files
    IN /\ \A k \in 1..Len(fs) :
            /\ fs[k].articles = Len(OfKind(output.written[k], "article"))
            /\ fs[k].modals = Len(OfKind(output.written[k], "modal_article"))
            /\ fs[k].modal_articles = 0
       /\ report.total_articles = Len(OfKind(Flatten(output.written), "article"))
       /\ report.total_modals = Len(OfKind(Flatten(output.written), "modal_article"))
       /\ report.total_errors = sum([k \in 1..Len(fs) |-> Len(fs[k].errors)])

(***************************************************************************)
(* Anchors without a closing marker: _find_segments_via_strong,            *)
(* src/leg5_src/extractor/extractor.py lines 90-106, under SpecSegments.   *)
(***************************************************************************)
\* The name anchors detected on a page, lines 95-100: the <strong> texts that
\* are not empty, have a legal form and are found in the page's text, each
\* with the offset found for it.
Anchors(html) ==
  {[sidx |-> find(_full_text(html), t), st_text |-> t] :
     t \in {s \in {_clean_text(strip(n.text)) : n \in {html[k] : k \in 1..Len(html)} \cap
                     {Strong(x.text) : x \in {html[k] : k \in 1..Len(html)}}} :
              /\ s # ""
              /\ search(LEGAL_FORM_RX, casefold(s), 0).found
              /\ find(_full_text(html), s) # -1}}

\* Where the chunk of an anchor at sidx ends: the end of the first closing
\* marker at or after sidx, the end of the text when there is none.
ChunkEnd(full, sidx) ==
  IF search(END_MARK_RX, Chars(full), sidx).found
  THEN search(END_MARK_RX, Chars(full), sidx).end
  ELSE Len(full)

\* C21: every detected name anchor yields a chunk that starts at the anchor
\* and ends at the end of the nearest closing marker at or after it, or at
\* the end of the text when no closing marker follows; no anchor is lost.
C21_EveryAnchorYieldsChunk ==
  pc = "segmented" =>
    \A a \in Anchors(input) :
      \E k \in 1..Len(output) :
        /\ output[k].sidx = a.sidx
        /\ output[k].st_text = a.st_text
        /\ output[k].eidx = ChunkEnd(_full_text(input), a.sidx)

\* The same for the anchors that a closing marker follows.
AnchorBeforeMarkerYieldsChunk ==
  pc = "segmented" =>
    \A a \in Anchors(input) :
      search(END_MARK_RX, Chars(_full_text(input)), a.sidx).found =>
        \E k \in 1..Len(output) :
          /\ output[k].sidx = a.sidx
          /\ output[k].st_text = a.st_text
          /\ output[k].eidx = ChunkEnd(_full_text(input), a.sidx)

\* And the chunks returned are those of the anchors with a marker only.
NoChunkWithoutMarker ==
  pc = "segmented" =>
    Len(output) = Cardinality({k \in 1..Len(input) :
                     /\ input[k].tag = "strong"
                     /\ \E a \in Anchors(input) :
                          /\ a.st_text = _clean_text(strip(input[k].text))
                          /\ search(END_MARK_RX, Chars(_full_text(input)), a.sidx).found})

(***************************************************************************)
(* Entries with an empty right-hand side: parse_value and parse_obj,       *)
(* src/ilegis_to_json_parser.py lines 30-61, under SpecParse.              *)
(***************************************************************************)
\* The keys under which a parsed value holds its entries: the keys of a
\* mapping, the positions of a sequence (written as print_r writes them).
EntryKeys(val) ==
  IF val.tag = "M" THEN {val.kv[i][1] : i \in 1..Len(val.kv)}
  ELSE IF val.tag = "L" THEN {<<"0", "1", "2", "3">>[i] : i \in 1..Len(val.kv)}
  ELSE {}

\* The lines that make up the scalar values of a parsed value, at any depth.
RECURSIVE ScalarLines(_)
ScalarLines(val) ==
  IF val.tag = "S" THEN {val.s[i] : i \in 1..Len(val.s)}
  ELSE UNION {ScalarLines(val.kv[i][2]) : i \in 1..Len(val.kv)}

\* A dump whose lines are all "[key] => ..." lines of one mapping, with a
\* scalar or nothing on the right, closed or not by a parenthesis.
OneMapping(lines) ==
  /\ lines # <<>>
  /\ \A i \in 1..Len(lines) :
       \/ _KEY(lines[i]) /\ ~WORD_ARRAY(AsLine(lines[i].v))
       \/ i = Len(lines) /\ i > 1 /\ CLOSE(lines[i])

\* C23: every "[key] =>" line at a mapping's depth opens its own entry, and a
\* scalar value holds no "[key] =>" line and no closing parenthesis: after an
\* empty right-hand side the next such line is not absorbed, so the key that
\* follows is in the resulting mapping.
C23_EmptyValueNotAbsorbing ==
  (pc = "parsed" /\ ~output.err) =>
    /\ \A l \in ScalarLines(output.val) : ~_KEY(l) /\ ~CLOSE(l)
    /\ OneMapping(NonBlank(input)) =>
         \A i \in 1..Len(NonBlank(input)) :
           _KEY(NonBlank(input)[i]) => NonBlank(input)[i].k \in EntryKeys(output.val)

\* What holds of it: a scalar absorbs such a line only as its first line, and
\* only when the right-hand side of its entry is empty.
OnlyFirstLineAbsorbed ==
  (pc = "parsed" /\ ~output.err) =>
    /\ \A i \in 1..Len(output.val.kv) :
         output.val.kv[i][2].tag = "S" =>
           \A n \in 2..Len(output.val.kv[i][2].s) :
             ~_KEY(output.val.kv[i][2].s[n]) /\ ~CLOSE(output.val.kv[i][2].s[n])
    /\ (/\ OneMapping(NonBlank(input))
        /\ \A i \in 1..Len(NonBlank(input)) :
             _KEY(NonBlank(input)[i]) => NonBlank(input)[i].v # "")
       => \A i \in 1..Len(NonBlank(input)) :
            _KEY(NonBlank(input)[i]) => NonBlank(input)[i].k \in EntryKeys(output.val)

(***************************************************************************)
(* Specification SpecCursor: parse_php_array run one loop iteration at a   *)
(* time, src/ilegis_to_json_parser.py lines 18-64.  The state of the run   *)
(* is kept in output: the list lines, the cursor j, one frame per active   *)
(* parse_obj call (its obj and the key its result is stored under), the    *)
(* key k and the list vals of the parse_value call in progress, and the    *)
(* value returned, if any.  pc is the place in the code.                   *)
(***************************************************************************)
Frame(k, obj) == [k |-> k, obj |-> obj]

Run(lines, j, stack, k, vals, val) ==
  [lines |-> lines, j |-> j, stack |-> stack, k |-> k, vals |-> vals, val |-> val]

\* The frame of the innermost parse_obj call and the frames under it.
Top(s) == s.stack[Len(s.stack)]
Callers(s) == SubSeq(s.stack, 1, Len(s.stack) - 1)

\* obj[k] = v in the innermost parse_obj call (line 60).
Store(stack, k, v) ==
  [stack EXCEPT ![Len(stack)] = Frame(stack[Len(stack)].k, SetItem(stack[Len(stack)].obj, k, v))]

\* A call parse_obj(j), lines 43-44: a new frame with an empty obj.
Call(s, k, j) == Run(s.lines, j, Append(s.stack, Frame(k, <<>>)), "", <<>>, s.val)

\* return obj, j of parse_obj (lines 47 and 61): to the caller's obj[k] = v,
\* or out of parse_php_array through _to_list_if_numeric (lines 63-64).
Return(s, j) ==
  IF Len(s.stack) = 1
  THEN Run(s.lines, j, <<>>, "", <<>>, <<_to_list_if_numeric(Mapping(Top(s).obj))>>)
  ELSE Run(s.lines, j, Store(Callers(s), Top(s).k, Mapping(Top(s).obj)), "", <<>>, s.val)

InitCursor ==
  /\ pc = "ready"
  /\ input \in SeqsUpTo(DumpLineSet, MaxLines)
  /\ output = Run(<<>>, 0, <<>>, "", <<>>, <<>>)

\* Lines 20-29 and the call of line 63.
Begin ==
  /\ pc = "ready"
  /\ IF NonBlank(input) = <<>>
     THEN /\ output' = Run(<<>>, 0, <<>>, "", <<>>, <<Mapping(<<>>)>>)
          /\ pc' = "returned"
     ELSE /\ output' = Run(NonBlank(input), StartIndex(NonBlank(input)),
                           <<Frame("", <<>>)>>, "", <<>>, <<>>)
          /\ pc' = "parse_obj"
  /\ UNCHANGED input

\* Lines 45-47 and 61: the loop of parse_obj ends at a closing parenthesis or
\* at the end of the lines.
ObjClose ==
  /\ pc = "parse_obj"
  /\ IF output.j < Len(output.lines) THEN CLOSE(output.lines[output.j + 1]) ELSE TRUE
  /\ output' = Return(output, IF output.j < Len(output.lines) THEN output.j + 1 ELSE output.j)
  /\ pc' = IF Len(output.stack) = 1 THEN "returned" ELSE "parse_obj"
  /\ UNCHANGED input

\* Lines 48-51: a line that is no "[key] =>" line is skipped.
ObjSkip ==
  /\ pc = "parse_obj"
  /\ output.j < Len(output.lines)
  /\ ~CLOSE(output.lines[output.j + 1]) /\ ~_KEY(output.lines[output.j + 1])
  /\ output' = [output EXCEPT !.j = output.j + 1]
  /\ pc' = "parse_obj"
  /\ UNCHANGED input

\* Lines 52-59: a "[key] =>" line; the value is a nested array (a call of
\* parse_obj), the inline text put back into lines, or what follows.
ObjKey ==
  /\ pc = "parse_obj"
  /\ output.j < Len(output.lines)
  /\ _KEY(output.lines[output.j + 1])
  /\ IF output.lines[output.j + 1].v # "" /\ WORD_ARRAY(AsLine(output.lines[output.j + 1].v))
     THEN /\ output' = Call(output, output.lines[output.j + 1].k, SkipOpen(output.lines, output.j + 1))
          /\ pc' = "parse_obj"
     ELSE /\ output' = [output EXCEPT
                          !.j = output.j + 1,
                          !.k = output.lines[output.j + 1].k,
                          !.lines = IF output.lines[output.j + 1].v # ""
                                    THEN InsertAt(output.lines, output.j + 1,
                                                  AsLine(output.lines[output.j + 1].v))
                                    ELSE output.lines]
          /\ pc' = "parse_value"
  /\ UNCHANGED input

\* Lines 31-37: parse_value calls parse_obj for a nested array, and takes
\* lines[j] as the first line of a scalar otherwise; lines[j] is an
\* IndexError when the cursor is at the end of the lines.
ValueFirst ==
  /\ pc = "parse_value"
  /\ IF output.j < Len(output.lines) /\ WORD_ARRAY(output.lines[output.j + 1])
     THEN /\ output' = Call(output, output.k, SkipOpen(output.lines, output.j + 1))
          /\ pc' = "parse_obj"
     ELSE IF output.j >= Len(output.lines)
     THEN /\ output' = output
          /\ pc' = "raised"
     ELSE /\ output' = [output EXCEPT !.j = output.j + 1,
                                      !.vals = <<output.lines[output.j + 1]>>]
          /\ pc' = "scalar"
  /\ UNCHANGED input

\* Lines 38-41: the loop over the following lines of a scalar, and its return
\* to obj[k] = v.
ValueMore ==
  /\ pc = "scalar"
  /\ IF /\ output.j < Len(output.lines)
        /\ ~_KEY(output.lines[output.j + 1])
        /\ ~CLOSE(output.lines[output.j + 1])
     THEN /\ output' = [output EXCEPT !.j = output.j + 1,
                                      !.vals = Append(output.vals, output.lines[output.j + 1])]
          /\ pc' = "scalar"
     ELSE /\ output' = [output EXCEPT !.stack = Store(output.stack, output.k, Scalar(output.vals)),
                                      !.k = "", !.vals = <<>>]
          /\ pc' = "parse_obj"
  /\ UNCHANGED input

NextCursor == Begin \/ ObjClose \/ ObjSkip \/ ObjKey \/ ValueFirst \/ ValueMore

\* The call runs on: a step that can be taken is taken.
SpecCursor == InitCursor /\ [][NextCursor]_vars /\ WF_vars(NextCursor)

\* C22: parse_php_array terminates on every finite input, the cursor
\* strictly advancing, and with mismatched or missing closing parentheses
\* it stops at the end of the input and returns the entries read so far: it
\* never fails and never loops, so every call comes to its return.
C22_StopsAndReturns == <>(pc = "returned")

\* What holds of it.  Every call comes to an end, by a return or by raising.
CallEnds == <>(pc \in {"returned", "raised"})

\* The cursor never moves back, and every iteration of the loops of parse_obj
\* and parse_value moves it forward, also the one that inserts an inline
\* value into lines; only a return at the end of the lines and the storing of
\* a finished scalar leave it where it is.
CursorAdvances ==
  [][/\ output'.j >= output.j
     /\ (\/ pc = "parse_obj" /\ output.j < Len(output.lines)
         \/ pc = "parse_value" /\ pc' # "raised"
         \/ pc = "scalar" /\ pc' = "scalar") => output'.j > output.j]_vars

\* The cursor stays within the lines, and a step adds at most one line, the
\* inline value, just before the cursor moves over the key line.
CursorInLines ==
  /\ output.j <= Len(output.lines)
  /\ Len(output.lines) <= 2 * Len(input)

\* A call that returns returns what parse_obj returns, and one that raises
\* is one where parse_obj raises.
StepsAgreeWithParse ==
  /\ pc = "returned" => <<parse_php_array(input)>> = <<[err |-> FALSE, val |-> output.val[1]]>>
  /\ pc = "raised" => parse_php_array(input).err

\* A call raises only with the cursor at the end of the lines, just after a
\* "[key] =>" line with nothing on its right.
RaisesOnlyAtEnd ==
  pc = "raised" =>
    /\ output.j = Len(output.lines)
    /\ _KEY(output.lines[output.j]) /\ output.lines[output.j].v = ""

====
